---- MODULE Spec2Model ----
(***************************************************************************)
(* NL2TDL: natural-language requirement -> TDL document -> robot ranking.  *)
(*                                                                         *)
(* Python strings are modelled as sequences of one-character strings, so   *)
(* that lower(), `in`, startswith(), split() and the regular expressions   *)
(* of the source are computed character by character.  None is the empty   *)
(* sequence and Some(x) the one-element sequence <<x>>.  A value that the  *)
(* source binds to a local variable is passed as the parameter of a helper *)
(* operator, so that it is computed once.                                  *)
(***************************************************************************)
EXTENDS Integers, Sequences, FiniteSets, TLC

\* ------------------------------------------------------------------------
\* Bounds of the model
\* ------------------------------------------------------------------------

\* A requirement text is at most MaxPhrases phrases of Phrases, joined by " ".
MaxPhrases == 1

\* A robot database holds at most MaxRobots records.
MaxRobots == 2

\* the runs of the heuristic pipeline compared on one text
MaxRuns == 3

\* the goals of a document the reports are built on
MaxGoals == 3

\* the words of a text whose actions are detected
MaxWords == 2

\* the requests served by one process
MaxRequests == 2

\* the actions of an analysis the Execute goal is built from
MaxActions == 3

\* the characters of a model output the JSON block is cut from
MaxChars == 5

\* the lines of the body of a GOAL block the model wrote
MaxLines == 3

\* the signatures a synthesis answer lists as used
MaxSignatures == 3

\* ------------------------------------------------------------------------
\* Python built-ins on strings
\* ------------------------------------------------------------------------

None == <<>>

Some(x) == <<x>>

Range(s) == {s[i] : i \in 1..Len(s)}

Min(S) == CHOOSE x \in S : \A y \in S : x <= y

Max(S) == 0 - Min({0 - x : x \in S})

\* The least element of a set of positions, 0 for the empty set
First(S) == IF S = {} THEN 0 ELSE Min(S)

UpperChars == <<"A","B","C","D","E","F","G","H","I","J","K","L","M","N","O","P","Q","R","S","T","U","V","W","X","Y","Z">>

LowerChars == <<"a","b","c","d","e","f","g","h","i","j","k","l","m","n","o","p","q","r","s","t","u","v","w","x","y","z">>

DigitChars == <<"0","1","2","3","4","5","6","7","8","9">>

\* \d
Digits == Range(DigitChars)

\* \s
Spaces == {" ", "\n", "\t", "\r"}

\* \w of the regular expressions and [A-Za-z0-9_], over the ASCII alphabet of the model
WordChars == Range(UpperChars) \cup Range(LowerChars) \cup Range(DigitChars) \cup {"_"}

\* the upper-case letters
Uppers == Range(UpperChars)

lower_char(c) ==
  IF c \in Uppers
  THEN LowerChars[CHOOSE i \in 1..Len(UpperChars) : UpperChars[i] = c]
  ELSE c

\* str.lower()
lower(s) == [i \in 1..Len(s) |-> lower_char(s[i])]

\* s[i:].startswith(p), positions counted from 1
StartsWithAt(s, i, p) == i >= 1 /\ i + Len(p) - 1 <= Len(s) /\ SubSeq(s, i, i + Len(p) - 1) = p

\* str.startswith
startswith(s, p) == StartsWithAt(s, 1, p)

\* str.endswith
endswith(s, p) == StartsWithAt(s, Len(s) - Len(p) + 1, p)

\* p in s
contains(s, p) == \E i \in 1..(Len(s) - Len(p) + 1) : StartsWithAt(s, i, p)

\* str.find, counted from 1; 0 when p does not occur
find(s, p) == First({i \in 1..(Len(s) - Len(p) + 1) : StartsWithAt(s, i, p)})

\* str.strip()
strip(s) ==
  IF \A i \in 1..Len(s) : s[i] \in Spaces THEN <<>>
  ELSE SubSeq(s, Min({i \in 1..Len(s) : s[i] \notin Spaces}), Max({i \in 1..Len(s) : s[i] \notin Spaces}))

\* The last index of the longest run of characters of `chars` that starts at
\* i (i - 1 when the run is empty): what a greedy [..]* consumes.
RunEnd(s, i, chars) ==
  IF \A j \in i..Len(s) : s[j] \in chars THEN Len(s)
  ELSE Min({j \in i..Len(s) : s[j] \notin chars}) - 1

\* The last index of the whitespace run that starts at i: \s*
SkipSpace(s, i) == RunEnd(s, i, Spaces)

RECURSIVE join(_, _)
\* sep.join(parts)
join(sep, parts) ==
  IF parts = <<>> THEN <<>>
  ELSE IF Len(parts) = 1 THEN parts[1]
  ELSE parts[1] \o sep \o join(sep, Tail(parts))

RECURSIVE str_nat(_)
str_nat(n) == IF n < 10 THEN <<DigitChars[n + 1]>> ELSE str_nat(n \div 10) \o <<DigitChars[(n % 10) + 1]>>

\* str(n) of an int, as an f-string formats it
str_int(n) == IF n < 0 THEN <<"-">> \o str_nat(0 - n) ELSE str_nat(n)

DigitVal(c) == (CHOOSE i \in 1..10 : DigitChars[i] = c) - 1

RECURSIVE ParseNat(_)
ParseNat(ds) == IF ds = <<>> THEN 0 ELSE ParseNat(SubSeq(ds, 1, Len(ds) - 1)) * 10 + DigitVal(ds[Len(ds)])

\* float(text) of a text \d+(\.\d+)?, in thousandths: the digits before the
\* decimal point and at most three of those after it
float_milli(text) ==
  IF find(text, <<".">>) = 0 THEN ParseNat(text) * 1000
  ELSE ParseNat(SubSeq(text, 1, find(text, <<".">>) - 1)) * 1000
       + ParseNat(SubSeq(SubSeq(text, find(text, <<".">>) + 1, Len(text)) \o <<"0","0","0">>, 1, 3))

\* All orders in which a Python set of strings may be iterated
Orders(S) == {f \in [1..Cardinality(S) -> S] : \A i, j \in 1..Cardinality(S) : f[i] = f[j] => i = j}

\* ------------------------------------------------------------------------
\* JSON values, as json.loads returns them.  A dict is the list of its items
\* in insertion order; keys are strings.
\* ------------------------------------------------------------------------

JStr(s) == [t |-> "str", v |-> s]

JList(l) == [t |-> "list", v |-> l]

JDict(items) == [t |-> "dict", v |-> items]

JNull == [t |-> "null", v |-> <<>>]

JNum(milli) == [t |-> "num", v |-> milli]

Item(k, x) == [key |-> k, value |-> x]

HasKey(d, key) == \E i \in 1..Len(d) : d[i].key = key

\* d.get(key, default)
dict_get(d, key, default) ==
  IF HasKey(d, key) THEN d[Min({i \in 1..Len(d) : d[i].key = key})].value ELSE default

\* d[key] = value on a dict kept as the list of its items in insertion
\* order: assigning to a key the dict holds keeps the key's position
dict_set(d, key, value) ==
  IF HasKey(d, key)
  THEN [i \in 1..Len(d) |-> IF d[i].key = key THEN [key |-> key, value |-> value] ELSE d[i]]
  ELSE Append(d, [key |-> key, value |-> value])

\* ------------------------------------------------------------------------
\* requirement_analysis.py
\* ------------------------------------------------------------------------

ACTION_KEYWORDS ==
  << [canonical |-> <<"p","i","c","k">>,  synonyms |-> <<<<"p","i","c","k">>, <<"g","r","a","s","p">>, <<"g","r","a","b">>, <<"c","o","l","l","e","c","t">>, <<"l","i","f","t">>>>],
     [canonical |-> <<"p","l","a","c","e">>, synonyms |-> <<<<"p","l","a","c","e">>, <<"p","u","t">>, <<"s","e","t">>, <<"d","r","o","p">>>>],
     [canonical |-> <<"m","o","v","e">>,  synonyms |-> <<<<"m","o","v","e">>, <<"t","r","a","n","s","f","e","r">>, <<"c","a","r","r","y">>, <<"d","e","l","i","v","e","r">>>>],
     [canonical |-> <<"w","a","i","t">>,  synonyms |-> <<<<"w","a","i","t">>, <<"h","o","l","d">>>>] >>

\* (object|box|cup|component|part|tool|payload), re.IGNORECASE
OBJECT_PATTERN == <<<<"o","b","j","e","c","t">>, <<"b","o","x">>, <<"c","u","p">>, <<"c","o","m","p","o","n","e","n","t">>, <<"p","a","r","t">>, <<"t","o","o","l">>, <<"p","a","y","l","o","a","d">>>>

\* [\w-] of LOCATION_PATTERN
LocationChars == WordChars \cup {"-"}

\* unit -> factor, in thousandths
METRIC_CONVERSIONS ==
  << Item(<<"m","m">>, 1), Item(<<"m","i","l","l","i","m","e","t","e","r">>, 1), Item(<<"m","i","l","l","i","m","e","t","e","r","s">>, 1),
     Item(<<"c","m">>, 10), Item(<<"c","e","n","t","i","m","e","t","e","r">>, 10), Item(<<"c","e","n","t","i","m","e","t","e","r","s">>, 10),
     Item(<<"m">>, 1000), Item(<<"m","e","t","e","r">>, 1000), Item(<<"m","e","t","e","r","s">>, 1000) >>

RECURSIVE rstrip_s(_)
\* unit.rstrip('s')
rstrip_s(u) == IF u # <<>> /\ u[Len(u)] = "s" THEN rstrip_s(SubSeq(u, 1, Len(u) - 1)) ELSE u

\* value and result in thousandths
normalize_distance(value, unit) ==
  IF ~HasKey(METRIC_CONVERSIONS, rstrip_s(lower(unit))) THEN value
  ELSE (value * dict_get(METRIC_CONVERSIONS, rstrip_s(lower(unit)), 0)) \div 1000

RECURSIVE actions_from_last(_, _)
\* actions_from with the table read from its last entry to its first
actions_from_last(lower_requirement, k) ==
  IF k > Len(ACTION_KEYWORDS) THEN <<>>
  ELSE actions_from_last(lower_requirement, k + 1)
       \o (IF \E n \in 1..Len(ACTION_KEYWORDS[k].synonyms) :
                  contains(lower_requirement, ACTION_KEYWORDS[k].synonyms[n])
           THEN <<ACTION_KEYWORDS[k].canonical>> ELSE <<>>)

RECURSIVE actions_from(_, _)
\* the loop over ACTION_KEYWORDS.items(), from entry k on
actions_from(lower_requirement, k) ==
  IF k > Len(ACTION_KEYWORDS) THEN <<>>
  ELSE (IF \E n \in 1..Len(ACTION_KEYWORDS[k].synonyms) :
               contains(lower_requirement, ACTION_KEYWORDS[k].synonyms[n])
        THEN <<ACTION_KEYWORDS[k].canonical>> ELSE <<>>)
       \o actions_from(lower_requirement, k + 1)

\* actions or ["analyze"]
or_analyze(actions) == IF actions = <<>> THEN <<<<"a","n","a","l","y","z","e">>>> ELSE actions

detect_actions(requirement) == or_analyze(actions_from(lower(requirement), 1))

\* the first alternative of OBJECT_PATTERN that matches at position j, or 0
object_at(low, j) == First({k \in 1..Len(OBJECT_PATTERN) : StartsWithAt(low, j, OBJECT_PATTERN[k])})

RECURSIVE object_matches(_, _)
RECURSIVE object_match(_, _)
\* the match that starts at position `first` (0: none) and those after it
object_match(low, first) ==
  IF first = 0 THEN {}
  ELSE {OBJECT_PATTERN[object_at(low, first)]}
       \cup object_matches(low, first + Len(OBJECT_PATTERN[object_at(low, first)]))

\* OBJECT_PATTERN.finditer: the lowercased non-overlapping matches from position i on
object_matches(low, i) == object_match(low, First({j \in i..Len(low) : object_at(low, j) # 0}))

\* list({...}): the lists the call may return, one per iteration order of the set
detect_object_terms(requirement) == Orders(object_matches(lower(requirement), 1))

\* LOCATION_PATTERN with group 1 at s1..e1 and group 2 ending at e2:
\* <<start1, end1, start2, end2>> or <<>>
location_groups(low, s1, e1, e2) ==
  IF e1 >= s1 /\ StartsWithAt(low, e1 + 1, <<" ","t","o"," ">>) /\ e2 >= e1 + 5
  THEN <<s1, e1, e1 + 5, e2>>
  ELSE <<>>

\* LOCATION_PATTERN matched at position i
location_match_at(low, i) ==
  IF ~StartsWithAt(low, i, <<"f","r","o","m"," ">>) THEN <<>>
  ELSE location_groups(low, i + 5, RunEnd(low, i + 5, LocationChars),
                       RunEnd(low, RunEnd(low, i + 5, LocationChars) + 5, LocationChars))

\* match.group(1), match.group(2) of the match m, read from the text as written
location_pair(requirement, m) ==
  IF m = <<>> THEN <<None, None>>
  ELSE <<Some(SubSeq(requirement, m[1], m[2])), Some(SubSeq(requirement, m[3], m[4]))>>

\* LOCATION_PATTERN.search: the leftmost match, or <<>>
location_search(low) ==
  IF \A i \in 1..Len(low) : location_match_at(low, i) = <<>> THEN <<>>
  ELSE location_match_at(low, Min({i \in 1..Len(low) : location_match_at(low, i) # <<>>}))

\* <<source, target>>, each None or Some(text)
detect_locations(requirement) == location_pair(requirement, location_search(lower(requirement)))

\* (\d+(?:\.\d+)?) matched at position i: the last index of the number, or 0
number_end_at(low, i) ==
  IF RunEnd(low, i, Digits) < i THEN 0
  ELSE IF StartsWithAt(low, RunEnd(low, i, Digits) + 1, <<".">>)
          /\ RunEnd(low, RunEnd(low, i, Digits) + 2, Digits) >= RunEnd(low, i, Digits) + 2
  THEN RunEnd(low, RunEnd(low, i, Digits) + 2, Digits)
  ELSE RunEnd(low, i, Digits)

\* \s*(?:kg|kilograms?) after position k
kg_after(low, k) ==
  \/ StartsWithAt(low, SkipSpace(low, k + 1) + 1, <<"k","g">>)
  \/ StartsWithAt(low, SkipSpace(low, k + 1) + 1, <<"k","i","l","o","g","r","a","m">>)

\* PAYLOAD_PATTERN matched at position i: the last index of group 1, or 0.
\* When the fraction is not followed by the unit, the match backtracks to
\* the integer part alone.
payload_match_at(low, i) ==
  IF number_end_at(low, i) = 0 THEN 0
  ELSE IF kg_after(low, number_end_at(low, i)) THEN number_end_at(low, i)
  ELSE IF kg_after(low, RunEnd(low, i, Digits)) THEN RunEnd(low, i, Digits)
  ELSE 0

\* float(match.group(1)) of the match at position i (0: no match)
payload_value(low, i) ==
  IF i = 0 THEN None ELSE Some(float_milli(SubSeq(low, i, payload_match_at(low, i))))

\* PAYLOAD_PATTERN.search and float(match.group(1))
payload_search(low) == payload_value(low, First({i \in 1..Len(low) : payload_match_at(low, i) # 0}))

\* None or Some(value in thousandths of a kilogram)
extract_payload(requirement) == payload_search(lower(requirement))

\* The unit alternative (mm|millimeters?|cm|centimeters?|m|meters?) taken at
\* position i, the first that matches in the order written; <<>> when none does
unit_at(low, i) ==
  IF StartsWithAt(low, i, <<"m","m">>) THEN <<"m","m">>
  ELSE IF StartsWithAt(low, i, <<"m","i","l","l","i","m","e","t","e","r","s">>) THEN <<"m","i","l","l","i","m","e","t","e","r","s">>
  ELSE IF StartsWithAt(low, i, <<"m","i","l","l","i","m","e","t","e","r">>) THEN <<"m","i","l","l","i","m","e","t","e","r">>
  ELSE IF StartsWithAt(low, i, <<"c","m">>) THEN <<"c","m">>
  ELSE IF StartsWithAt(low, i, <<"c","e","n","t","i","m","e","t","e","r","s">>) THEN <<"c","e","n","t","i","m","e","t","e","r","s">>
  ELSE IF StartsWithAt(low, i, <<"c","e","n","t","i","m","e","t","e","r">>) THEN <<"c","e","n","t","i","m","e","t","e","r">>
  ELSE IF StartsWithAt(low, i, <<"m">>) THEN <<"m">>
  ELSE <<>>

\* the number at ns..e followed by \s* and a unit: <<number start, number end, unit start>> or <<>>
number_unit(low, ns, e) ==
  IF e # 0 /\ unit_at(low, SkipSpace(low, e + 1) + 1) # <<>>
  THEN <<ns, e, SkipSpace(low, e + 1) + 1>>
  ELSE <<>>

\* \s*(\d+(?:\.\d+)?)\s*(unit) with the number at position ns: the whole number first, then,
\* backtracking, its integer part
reach_number_at(low, ns) ==
  IF number_end_at(low, ns) = 0 THEN <<>>
  ELSE IF number_unit(low, ns, number_end_at(low, ns)) # <<>> THEN number_unit(low, ns, number_end_at(low, ns))
  ELSE number_unit(low, ns, RunEnd(low, ns, Digits))

\* REACH_PATTERN matched at position i: <<number start, number end, unit start>> or <<>>
reach_match_at(low, i) ==
  IF ~StartsWithAt(low, i, <<"r","e","a","c","h">>) THEN <<>>
  ELSE IF StartsWithAt(low, i + 5, <<"e","s">>) /\ reach_number_at(low, SkipSpace(low, i + 7) + 1) # <<>>
  THEN reach_number_at(low, SkipSpace(low, i + 7) + 1)
  ELSE reach_number_at(low, SkipSpace(low, i + 5) + 1)

\* normalize_distance(float(group 1), unit) of the match m (<<>>: no match)
reach_value(low, m) ==
  IF m = <<>> THEN None
  ELSE Some(normalize_distance(float_milli(SubSeq(low, m[1], m[2])), unit_at(low, m[3])))

\* REACH_PATTERN.search
reach_search(low) ==
  IF \A i \in 1..Len(low) : reach_match_at(low, i) = <<>> THEN <<>>
  ELSE reach_match_at(low, Min({i \in 1..Len(low) : reach_match_at(low, i) # <<>>}))

\* None or Some(value in thousandths of a metre)
extract_reach(requirement) == reach_value(lower(requirement), reach_search(lower(requirement)))

\* an optional text that is neither None nor ""
Truthy(opt) == opt # None /\ opt[1] # <<>>

\* lines 108-112: the constraints dict
heuristic_constraints(payload, reach) ==
  (IF payload # None THEN <<Item(<<"p","a","y","l","o","a","d","_","k","g">>, payload[1])>> ELSE <<>>)
  \o (IF reach # None THEN <<Item(<<"r","e","a","c","h","_","m">>, reach[1])>> ELSE <<>>)

\* lines 114-118: the notes
heuristic_notes(objects, source_location, target_location) ==
  (IF objects = <<>> THEN <<<<"N","o"," ","e","x","p","l","i","c","i","t"," ","o","b","j","e","c","t"," ","d","e","t","e","c","t","e","d",";"," ","d","e","f","a","u","l","t"," ","h","a","n","d","l","i","n","g"," ","w","i","l","l"," ","b","e"," ","a","p","p","l","i","e","d",".">>>> ELSE <<>>)
  \o (IF Truthy(source_location) /\ Truthy(target_location)
      THEN <<<<"D","e","t","e","c","t","e","d"," ","t","r","a","n","s","f","e","r"," ","f","r","o","m"," ">> \o source_location[1] \o <<" ","t","o"," ">> \o target_location[1] \o <<".">>>>
      ELSE <<>>)

\* lines 120-128: the result, `locations` being the pair detect_locations returned
heuristic_result(requirement, actions, objects, locations, payload, reach) ==
  [source_requirement |-> requirement,
   detected_actions |-> actions,
   objects |-> objects,
   source_location |-> locations[1],
   target_location |-> locations[2],
   constraints |-> heuristic_constraints(payload, reach),
   notes |-> heuristic_notes(objects, locations[1], locations[2])]

\* `objects` is the list detect_object_terms returned
analyze_requirement_heuristic(requirement, objects) ==
  heuristic_result(requirement, detect_actions(requirement), objects, detect_locations(requirement),
                   extract_payload(requirement), extract_reach(requirement))

\* ------------------------------------------------------------------------
\* models.py: the records
\* ------------------------------------------------------------------------

GoalNode(name, description, commands) == [name |-> name, description |-> description, commands |-> commands]

CommandDefinition(name, signature, body) == [name |-> name, signature |-> signature, body |-> body]

TDLHeader(converted_at, source_requirement, manufacturer, model) ==
  [converted_at |-> converted_at, source_requirement |-> source_requirement,
   manufacturer |-> manufacturer, model |-> model]

TDLDocument(header, goals, commands) == [header |-> header, goals |-> goals, commands |-> commands]

\* ------------------------------------------------------------------------
\* tdl_generator.py: heuristic generation
\* ------------------------------------------------------------------------

\* location name -> (x, y, z, rx, ry, rz).  The two entries of the source
\* with non-ASCII names repeat the coordinates of "a" and "b" and lie outside
\* the alphabet of the model.
DEFAULT_LOCATION_MAP ==
  << Item(<<"a">>,       <<0, 0, 50, 0, 0, 0>>),
     Item(<<"b">>,       <<300, 200, 50, 0, 0, 0>>),
     Item(<<"h","o","m","e">>,    <<0, 0, 200, 0, 0, 0>>),
     Item(<<"p","i","c","k","u","p">>,  <<100, 0, 50, 0, 0, 0>>),
     Item(<<"d","r","o","p","o","f","f">>, <<100, 300, 50, 0, 0, 0>>) >>

\* _get_position_coords with the name looked up as it is written
_get_position_coords_cased(location, default) ==
  IF ~Truthy(location) THEN default
  ELSE dict_get(DEFAULT_LOCATION_MAP, location[1], default)

\* `location` is None or Some(text); an empty text is falsy like None
_get_position_coords(location, default) ==
  IF ~Truthy(location) THEN default
  ELSE dict_get(DEFAULT_LOCATION_MAP, lower(location[1]), default)

COMMAND_LIBRARY ==
  << Item(<<"S","e","t","J","o","i","n","t","V","e","l","o","c","i","t","y">>,
          CommandDefinition(<<"S","e","t","J","o","i","n","t","V","e","l","o","c","i","t","y">>, <<"(","v","e","l","o","c","i","t","y",")">>, <<"m","o","t","i","o","n",".","c","o","n","f","i","g","u","r","e","_","j","o","i","n","t","_","v","e","l","o","c","i","t","y","(","v","e","l","o","c","i","t","y",")",";">>)),
     Item(<<"M","o","v","e","L","i","n","e","a","r">>,
          CommandDefinition(<<"M","o","v","e","L","i","n","e","a","r">>, <<"(","p","o","s","e",","," ","v","e","l","o","c","i","t","y",","," ","a","c","c","e","l","e","r","a","t","i","o","n",","," ","t","o","o","l",","," ","b","l","e","n","d",")">>,
                            <<"m","o","t","i","o","n",".","e","x","e","c","u","t","e","(","t","y","p","e","=","\"","L","i","n","e","a","r","\"",","," ","p","o","s","e","=","p","o","s","e",","," ","v","e","l","=","v","e","l","o","c","i","t","y",","," ","a","c","c","=","a","c","c","e","l","e","r","a","t","i","o","n",","," ","t","o","o","l","=","t","o","o","l",","," ","b","l","e","n","d","=","b","l","e","n","d",")",";">>)),
     Item(<<"W","a","i","t","F","o","r","D","i","g","i","t","a","l","I","n","p","u","t">>,
          CommandDefinition(<<"W","a","i","t","F","o","r","D","i","g","i","t","a","l","I","n","p","u","t">>, <<"(","s","i","g","n","a","l",","," ","s","t","a","t","e",","," ","t","i","m","e","o","u","t",")">>,
                            <<"i","o",".","w","a","i","t","_","f","o","r","_","d","i","g","i","t","a","l","(","s","i","g","n","a","l","=","s","i","g","n","a","l",","," ","s","t","a","t","e","=","s","t","a","t","e",","," ","t","i","m","e","o","u","t","=","t","i","m","e","o","u","t",")",";">>)),
     Item(<<"R","e","l","e","a","s","e","C","o","m","p","l","i","a","n","c","e">>, CommandDefinition(<<"R","e","l","e","a","s","e","C","o","m","p","l","i","a","n","c","e">>, <<"(",")">>, <<"c","o","m","p","l","i","a","n","c","e",".","r","e","l","e","a","s","e","(",")",";">>)),
     Item(<<"S","e","t","T","o","o","l">>, CommandDefinition(<<"S","e","t","T","o","o","l">>, <<"(","t","o","o","l","_","n","a","m","e",")">>, <<"t","o","o","l","i","n","g",".","a","c","t","i","v","a","t","e","(","t","o","o","l","_","n","a","m","e",")",";">>)),
     Item(<<"G","r","a","s","p","O","b","j","e","c","t">>, CommandDefinition(<<"G","r","a","s","p","O","b","j","e","c","t">>, <<"(","f","o","r","c","e",")">>, <<"e","n","d","_","e","f","f","e","c","t","o","r",".","g","r","a","s","p","(","f","o","r","c","e","=","f","o","r","c","e",")",";">>)),
     Item(<<"R","e","l","e","a","s","e","O","b","j","e","c","t">>, CommandDefinition(<<"R","e","l","e","a","s","e","O","b","j","e","c","t">>, <<"(",")">>, <<"e","n","d","_","e","f","f","e","c","t","o","r",".","r","e","l","e","a","s","e","(",")",";">>)) >>

APPROACH_HEIGHT == 100

GRASP_HEIGHT == 10

\* f"PosX({x},{y},{z + dz},{rx},{ry},{rz})"
PosX(c, dz) ==
  <<"P","o","s","X","(">> \o str_int(c[1]) \o <<",">> \o str_int(c[2]) \o <<",">> \o str_int(c[3] + dz) \o <<",">>
          \o str_int(c[4]) \o <<",">> \o str_int(c[5]) \o <<",">> \o str_int(c[6]) \o <<")">>

\* x in list, for a list of strings
InList(x, list) == \E i \in 1..Len(list) : list[i] = x

\* f"source_{source_loc}" if source_loc else "source_position", and the same for the target
location_comment(prefix, loc) == IF Truthy(loc) THEN prefix \o <<"_">> \o loc[1] ELSE prefix \o <<"_","p","o","s","i","t","i","o","n">>

\* lines 316-333: the commands appended for "pick"
pick_commands(source_coords, source_comment) ==
  << <<"M","o","v","e","L","i","n","e","a","r","(">> \o PosX(source_coords, APPROACH_HEIGHT) \o <<","," ","1","0","0",","," ","5","0",","," ","\"","g","r","i","p","p","e","r","\"",","," ","0",".","1",")"," "," ","/","/"," ","A","p","p","r","o","a","c","h"," ">>
       \o source_comment \o <<" ","(","a","b","o","v","e",")">>,
     <<"M","o","v","e","L","i","n","e","a","r","(">> \o PosX(source_coords, GRASP_HEIGHT) \o <<","," ","5","0",","," ","3","0",","," ","\"","g","r","i","p","p","e","r","\"",","," ","0",".","0",")"," "," ","/","/"," ","M","o","v","e"," ","t","o"," ">>
       \o source_comment \o <<" ","(","g","r","a","s","p"," ","h","e","i","g","h","t",")">>,
     <<"G","r","a","s","p","O","b","j","e","c","t","(","4","0",")"," "," ","/","/"," ","C","l","o","s","e"," ","g","r","i","p","p","e","r">>,
     <<"M","o","v","e","L","i","n","e","a","r","(">> \o PosX(source_coords, APPROACH_HEIGHT) \o <<","," ","1","0","0",","," ","5","0",","," ","\"","g","r","i","p","p","e","r","\"",","," ","0",".","1",")"," "," ","/","/"," ","L","i","f","t"," ","f","r","o","m"," ">>
       \o source_comment >>

\* lines 335-340: the command appended for "move"
move_commands(target_coords, target_comment) ==
  << <<"M","o","v","e","L","i","n","e","a","r","(">> \o PosX(target_coords, APPROACH_HEIGHT) \o <<","," ","1","0","0",","," ","5","0",","," ","\"","g","r","i","p","p","e","r","\"",","," ","0",".","1",")"," "," ","/","/"," ","M","o","v","e"," ","t","o"," ">>
       \o target_comment \o <<" ","(","a","b","o","v","e",")">> >>

\* lines 342-355: the commands appended for "place"
place_commands(target_coords, target_comment) ==
  << <<"M","o","v","e","L","i","n","e","a","r","(">> \o PosX(target_coords, GRASP_HEIGHT) \o <<","," ","5","0",","," ","3","0",","," ","\"","g","r","i","p","p","e","r","\"",","," ","0",".","0",")"," "," ","/","/"," ","L","o","w","e","r"," ","t","o"," ">>
       \o target_comment \o <<" ","(","p","l","a","c","e"," ","h","e","i","g","h","t",")">>,
     <<"R","e","l","e","a","s","e","O","b","j","e","c","t","(",")"," "," ","/","/"," ","O","p","e","n"," ","g","r","i","p","p","e","r">>,
     <<"M","o","v","e","L","i","n","e","a","r","(">> \o PosX(target_coords, APPROACH_HEIGHT) \o <<","," ","1","0","0",","," ","5","0",","," ","\"","g","r","i","p","p","e","r","\"",","," ","0",".","1",")"," "," ","/","/"," ","R","e","t","r","a","c","t"," ","f","r","o","m"," ">>
       \o target_comment >>

RECURSIVE _pick_command_names_listed(_, _, _)
\* the commands of every action of the list, in the order of the list
_pick_command_names_listed(actions, source_loc, target_loc) ==
  IF actions = <<>> THEN <<>>
  ELSE (IF actions[1] = <<"p","i","c","k">>
        THEN pick_commands(_get_position_coords(source_loc, <<0, 0, 50, 0, 0, 0>>), location_comment(<<"s","o","u","r","c","e">>, source_loc))
        ELSE IF actions[1] = <<"m","o","v","e">>
        THEN move_commands(_get_position_coords(target_loc, <<300, 200, 50, 0, 0, 0>>), location_comment(<<"t","a","r","g","e","t">>, target_loc))
        ELSE IF actions[1] = <<"p","l","a","c","e">>
        THEN place_commands(_get_position_coords(target_loc, <<300, 200, 50, 0, 0, 0>>), location_comment(<<"t","a","r","g","e","t">>, target_loc))
        ELSE <<>>)
       \o _pick_command_names_listed(Tail(actions), source_loc, target_loc)

_pick_command_names(actions, source_loc, target_loc) ==
  (IF InList(<<"p","i","c","k">>, actions)
   THEN pick_commands(_get_position_coords(source_loc, <<0, 0, 50, 0, 0, 0>>), location_comment(<<"s","o","u","r","c","e">>, source_loc))
   ELSE <<>>)
  \o (IF InList(<<"m","o","v","e">>, actions)
      THEN move_commands(_get_position_coords(target_loc, <<300, 200, 50, 0, 0, 0>>), location_comment(<<"t","a","r","g","e","t">>, target_loc))
      ELSE <<>>)
  \o (IF InList(<<"p","l","a","c","e">>, actions)
      THEN place_commands(_get_position_coords(target_loc, <<300, 200, 50, 0, 0, 0>>), location_comment(<<"t","a","r","g","e","t">>, target_loc))
      ELSE <<>>)

RECURSIVE without_release(_)
\* [cmd for cmd in execute_commands if not cmd.startswith("ReleaseCompliance(")]
without_release(commands) ==
  IF commands = <<>> THEN <<>>
  ELSE (IF startswith(commands[1], <<"R","e","l","e","a","s","e","C","o","m","p","l","i","a","n","c","e","(">>) THEN <<>> ELSE <<commands[1]>>)
       \o without_release(Tail(commands))

\* lines 376-381: the two description fragments
object_desc(objects) == IF objects # <<>> THEN <<" ">> \o join(<<","," ">>, objects) ELSE <<" ","o","b","j","e","c","t">>

location_desc(source_location, target_location) ==
  IF Truthy(source_location) /\ Truthy(target_location)
  THEN <<" ","f","r","o","m"," ">> \o source_location[1] \o <<" ","t","o"," ">> \o target_location[1]
  ELSE IF Truthy(target_location) THEN <<" ","t","o"," ">> \o target_location[1]
  ELSE <<>>

\* _build_goals_heuristic with the Execute commands left unfiltered and the
\* release appended to them
_build_goals_heuristic_unfiltered(a) ==
  << GoalNode(<<"I","n","i","t","i","a","l","i","z","e","_","P","r","o","c","e","s","s">>,
              <<"P","r","e","p","a","r","e"," ","r","o","b","o","t"," ","a","n","d"," ","g","r","i","p","p","e","r"," ","f","o","r">> \o object_desc(a.objects),
              << <<"S","e","t","J","o","i","n","t","V","e","l","o","c","i","t","y","(","3","0",")">>, <<"S","e","t","T","o","o","l","(","\"","g","r","i","p","p","e","r","\"",")">> >>),
     GoalNode(<<"E","x","e","c","u","t","e","_","P","r","o","c","e","s","s">>,
              <<"T","r","a","n","s","f","e","r">> \o object_desc(a.objects) \o location_desc(a.source_location, a.target_location),
              Append(_pick_command_names(a.detected_actions, a.source_location, a.target_location),
                     <<"R","e","l","e","a","s","e","C","o","m","p","l","i","a","n","c","e","(",")">>)),
     GoalNode(<<"F","i","n","a","l","i","z","e","_","P","r","o","c","e","s","s">>,
              <<"R","e","t","u","r","n"," ","r","o","b","o","t"," ","t","o"," ","s","a","f","e"," ","s","t","a","t","e">>,
              << <<"R","e","l","e","a","s","e","C","o","m","p","l","i","a","n","c","e","(",")">> >>) >>

_build_goals_heuristic(a) ==
  << GoalNode(<<"I","n","i","t","i","a","l","i","z","e","_","P","r","o","c","e","s","s">>,
              <<"P","r","e","p","a","r","e"," ","r","o","b","o","t"," ","a","n","d"," ","g","r","i","p","p","e","r"," ","f","o","r">> \o object_desc(a.objects),
              << <<"S","e","t","J","o","i","n","t","V","e","l","o","c","i","t","y","(","3","0",")">>, <<"S","e","t","T","o","o","l","(","\"","g","r","i","p","p","e","r","\"",")">> >>),
     GoalNode(<<"E","x","e","c","u","t","e","_","P","r","o","c","e","s","s">>,
              <<"T","r","a","n","s","f","e","r">> \o object_desc(a.objects) \o location_desc(a.source_location, a.target_location),
              without_release(_pick_command_names(a.detected_actions, a.source_location, a.target_location))),
     GoalNode(<<"F","i","n","a","l","i","z","e","_","P","r","o","c","e","s","s">>,
              <<"R","e","t","u","r","n"," ","r","o","b","o","t"," ","t","o"," ","s","a","f","e"," ","s","t","a","t","e">>,
              << <<"R","e","l","e","a","s","e","C","o","m","p","l","i","a","n","c","e","(",")">> >>) >>

\* command_call.split("(")[0]
call_name(command_call) ==
  IF find(command_call, <<"(">>) = 0 THEN command_call
  ELSE SubSeq(command_call, 1, find(command_call, <<"(">>) - 1)

RECURSIVE AllCalls(_)
\* every command call of every goal, goals and commands read in order
AllCalls(goals) == IF goals = <<>> THEN <<>> ELSE goals[1].commands \o AllCalls(Tail(goals))

\* gather_one with the definition appended at every invocation
gather_one_appending(required_commands, name) ==
  IF HasKey(COMMAND_LIBRARY, name)
  THEN Append(required_commands, Item(name, dict_get(COMMAND_LIBRARY, name, <<>>)))
  ELSE required_commands

\* lines 407-408: one command call
gather_one(required_commands, name) ==
  IF HasKey(COMMAND_LIBRARY, name)
  THEN dict_set(required_commands, name, dict_get(COMMAND_LIBRARY, name, <<>>))
  ELSE required_commands

RECURSIVE gather_loop(_, _)
\* lines 405-408: the two nested loops
gather_loop(calls, required_commands) ==
  IF calls = <<>> THEN required_commands
  ELSE gather_loop(Tail(calls), gather_one(required_commands, call_name(calls[1])))

\* list(d.values())
values(d) == [i \in 1..Len(d) |-> d[i].value]

_gather_commands_for_goals(goals) == values(gather_loop(AllCalls(goals), <<>>))

\* the object COMMAND_LIBRARY holds under `name`
LibraryRef(name) == [table |-> "COMMAND_LIBRARY", key |-> name]

\* line 408 stores COMMAND_LIBRARY[name], the object of the table and no
\* copy of it: the objects in the list _gather_commands_for_goals returns
_gather_command_refs(goals) ==
  [i \in 1..Len(gather_loop(AllCalls(goals), <<>>)) |-> LibraryRef(gather_loop(AllCalls(goals), <<>>)[i].key)]

\* datetime.utcnow(): the clock is not modelled, the header records where
\* its time stamp came from
UtcNow == [origin |-> "utcnow", text |-> <<>>]

\* lines 419-426: the document of the goals built
heuristic_document(header, goals) == TDLDocument(header, goals, _gather_commands_for_goals(goals))

_generate_tdl_document_heuristic(a, manufacturer, model) ==
  heuristic_document(TDLHeader(UtcNow, a.source_requirement, manufacturer, model), _build_goals_heuristic(a))

\* ------------------------------------------------------------------------
\* tdl_generator.py: parsing of the model's output
\* ------------------------------------------------------------------------

\* the first index j >= i with s[j] = c, or 0
IndexOf(s, c, i) == First({j \in i..Len(s) : s[j] = c})

\* the last index j >= i with s[j] = c, or 0
LastIndexOf(s, c, i) == 0 - First({0 - j : j \in {k \in i..Len(s) : s[k] = c}})

\* \) \s* \{ with the parenthesis opened at op and closed at cp (0: never):
\* <<op, cp, position of the brace>> or <<>>
block_open(s, op, cp) ==
  IF cp # 0 /\ StartsWithAt(s, SkipSpace(s, cp + 1) + 1, <<"{">>)
  THEN <<op, cp, SkipSpace(s, cp + 1) + 1>>
  ELSE <<>>

\* \s*\([^)]*\)\s*\{ after a name that ends at ne
params_block(s, ne) ==
  IF StartsWithAt(s, SkipSpace(s, ne + 1) + 1, <<"(">>)
  THEN block_open(s, SkipSpace(s, ne + 1) + 1, IndexOf(s, ")", SkipSpace(s, ne + 1) + 2))
  ELSE <<>>

\* (.*?)\} after the block b opened for the name at ns..ne: [name, body, last] or None
goal_block(s, ns, ne, b) ==
  IF b = <<>> \/ IndexOf(s, "}", b[3] + 1) = 0 THEN None
  ELSE Some([name |-> SubSeq(s, ns, ne),
             body |-> SubSeq(s, b[3] + 1, IndexOf(s, "}", b[3] + 1) - 1),
             last |-> IndexOf(s, "}", b[3] + 1)])

\* ([A-Za-z0-9_]+) at ns..ne and what follows it
goal_named(s, ns, ne) == IF ne < ns THEN None ELSE goal_block(s, ns, ne, params_block(s, ne))

\* GOAL_PATTERN matched at position i: Some([name, body, last]) or None.
\* GOAL\s+([A-Za-z0-9_]+)\s*\([^)]*\)\s*\{(.*?)\}  with re.DOTALL
goal_match_at(s, i) ==
  IF ~StartsWithAt(s, i, <<"G","O","A","L">>) \/ SkipSpace(s, i + 4) < i + 4 THEN None
  ELSE goal_named(s, SkipSpace(s, i + 4) + 1, RunEnd(s, SkipSpace(s, i + 4) + 1, WordChars))

RECURSIVE splitlines(_)
RECURSIVE split_at(_, _)
\* the line before position nl of the first "\n" (0: none) and the lines after it
split_at(s, nl) ==
  IF nl = 0 THEN <<s>>
  ELSE <<SubSeq(s, 1, nl - 1)>> \o splitlines(SubSeq(s, nl + 1, Len(s)))

\* str.splitlines(), lines ending at "\n"
splitlines(s) == IF s = <<>> THEN <<>> ELSE split_at(s, IndexOf(s, "\n", 1))

DefaultDescription == <<"G","e","n","e","r","a","t","e","d"," ","g","o","a","l"," ","b","l","o","c","k">>

\* group 1 of a pattern whose prefix is n characters long, stripped: the text
\* after the prefix and the whitespace that follows it
group_after(stripped, n) == strip(SubSeq(stripped, SkipSpace(stripped, n + 1) + 1, Len(stripped)))

\* COMMENT_PATTERN.match(stripped):  //\s*(.*)
comment_match(stripped) == startswith(stripped, <<"/","/">>)

\* SPAWN_PATTERN.match(stripped):  SPAWN\s+(.*)
spawn_match(stripped) == startswith(stripped, <<"S","P","A","W","N">>) /\ SkipSpace(stripped, 6) >= 6

RECURSIVE goal_lines(_, _, _)
RECURSIVE goal_line(_, _, _, _)
\* lines 150-160: one pass of the loop over block.splitlines()
goal_line(stripped, rest, description, commands) ==
  IF stripped = <<>> THEN goal_lines(rest, description, commands)
  ELSE IF comment_match(stripped) /\ description = DefaultDescription
  THEN goal_lines(rest, IF group_after(stripped, 2) # <<>> THEN group_after(stripped, 2) ELSE description, commands)
  ELSE IF spawn_match(stripped) THEN goal_lines(rest, description, Append(commands, group_after(stripped, 5)))
  ELSE goal_lines(rest, description, commands)

\* the loop over block.splitlines(): <<description, commands>>
goal_lines(lines, description, commands) ==
  IF lines = <<>> THEN <<description, commands>>
  ELSE goal_line(strip(lines[1]), Tail(lines), description, commands)

\* line 162: the GoalNode of a match, `parsed` being what the loop left
goal_node(name, parsed) == GoalNode(name, parsed[1], parsed[2])

RECURSIVE goals_from(_, _)
RECURSIVE goals_at(_, _)
\* the goal of the match m and the goals of the matches after it
goals_with(goal_code, m) ==
  <<goal_node(m.name, goal_lines(splitlines(strip(m.body)), DefaultDescription, <<>>))>>
  \o goals_from(goal_code, m.last + 1)

\* the goals from the match at position j on (0: no match)
goals_at(goal_code, j) == IF j = 0 THEN <<>> ELSE goals_with(goal_code, goal_match_at(goal_code, j)[1])

\* GOAL_PATTERN.finditer from position i on
goals_from(goal_code, i) ==
  goals_at(goal_code, First({j \in i..Len(goal_code) : goal_match_at(goal_code, j) # None}))

_parse_goal_code(goal_code) == goals_from(goal_code, 1)

\* text[len(prefix):].strip() if text.startswith(prefix)
strip_keyword(text, prefix) ==
  IF startswith(text, prefix) THEN strip(SubSeq(text, Len(prefix) + 1, Len(text))) ELSE text

\* text[1:-1].strip() if text.startswith("{") and text.endswith("}")
strip_braces(text) ==
  IF startswith(text, <<"{">>) /\ endswith(text, <<"}">>) THEN strip(SubSeq(text, 2, Len(text) - 1)) ELSE text

_clean_command_definition_text(definition) ==
  strip_keyword(strip_braces(strip_keyword(strip(definition), <<"C","O","M","M","A","N","D">>)), <<"D","E","F","I","N","E">>)

\* \{(.*)\} after the block b opened for the name that ends at ne
command_def_block(cleaned, ne, b) ==
  IF b = <<>> \/ LastIndexOf(cleaned, "}", b[3] + 1) = 0 THEN None
  ELSE Some(CommandDefinition(SubSeq(cleaned, 1, ne),
                              SubSeq(cleaned, b[1], b[2]),
                              strip(SubSeq(cleaned, b[3] + 1, LastIndexOf(cleaned, "}", b[3] + 1) - 1))))

\* COMMAND_DEF_PATTERN.match(cleaned): Some(CommandDefinition) or None.
\* ([A-Za-z0-9_]+)\s*(\([^)]*\))\s*\{(.*)\}\s*  with re.DOTALL, anchored at the start
command_def_match(cleaned) ==
  IF RunEnd(cleaned, 1, WordChars) < 1 THEN None
  ELSE command_def_block(cleaned, RunEnd(cleaned, 1, WordChars), params_block(cleaned, RunEnd(cleaned, 1, WordChars)))

\* lines 200-209: the match appended, or the signature passed over
with_match(results, match) == IF match = None THEN results ELSE Append(results, match[1])

RECURSIVE command_definitions_loop(_, _, _, _)
RECURSIVE command_definitions_step(_, _, _, _, _)
\* a pass of the loop that does not look into seen
command_definitions_step_unseen(definitions, used_signatures, seen, results, definition_text) ==
  IF definition_text.t = "null" \/ definition_text.v = <<>>
  THEN command_definitions_loop(definitions, Tail(used_signatures), seen, results)
  ELSE command_definitions_loop(definitions, Tail(used_signatures), seen \cup {used_signatures[1]},
                                with_match(results, command_def_match(_clean_command_definition_text(definition_text.v))))

\* lines 193-209: one pass of the loop, definition_text being definitions.get(signature)
command_definitions_step(definitions, used_signatures, seen, results, definition_text) ==
  IF definition_text.t = "null" \/ definition_text.v = <<>> \/ used_signatures[1] \in seen
  THEN command_definitions_loop(definitions, Tail(used_signatures), seen, results)
  ELSE command_definitions_loop(definitions, Tail(used_signatures), seen \cup {used_signatures[1]},
                                with_match(results, command_def_match(_clean_command_definition_text(definition_text.v))))

\* the loop over used_signatures; definitions maps a signature to a text
command_definitions_loop(definitions, used_signatures, seen, results) ==
  IF used_signatures = <<>> THEN results
  ELSE command_definitions_step(definitions, used_signatures, seen, results,
                                dict_get(definitions, used_signatures[1], JNull))

_parse_command_definitions(definitions, used_signatures) ==
  command_definitions_loop(definitions, used_signatures, {}, <<>>)

\* ------------------------------------------------------------------------
\* tdl_generator.py: model-orchestrated generation
\* ------------------------------------------------------------------------

Raised(message) == [raised |-> TRUE, exc |-> message, document |-> <<>>]

Returned(doc) == [raised |-> FALSE, exc |-> <<>>, document |-> doc]

\* type(x).__name__ of a JSON value
type_name(x) ==
  IF x.t = "list" THEN <<"l","i","s","t">> ELSE IF x.t = "str" THEN <<"s","t","r">> ELSE IF x.t = "null" THEN <<"N","o","n","e","T","y","p","e">>
  ELSE IF x.t = "num" THEN <<"f","l","o","a","t">> ELSE <<"d","i","c","t">>

\* the AttributeError of x.attr
no_attribute(x, attr) == <<"'">> \o type_name(x) \o <<"'"," ","o","b","j","e","c","t"," ","h","a","s"," ","n","o"," ","a","t","t","r","i","b","u","t","e"," ","'">> \o attr \o <<"'">>

JError(message) == [t |-> "error", v |-> message]

\* x.get(key, default): the value, or the error of a receiver that is no
\* dict (an error passes through, the statement being left at the first raise)
json_get(x, key, default) ==
  IF x.t = "error" THEN x
  ELSE IF x.t # "dict" THEN JError(no_attribute(x, <<"g","e","t">>))
  ELSE dict_get(x.v, key, default)

\* datetime.fromisoformat accepts YYYY-MM-DDTHH:MM:SS (the one form the model knows)
IsIsoFormat(s) ==
  /\ Len(s) = 19
  /\ \A i \in {1, 2, 3, 4, 6, 7, 9, 10, 12, 13, 15, 16, 18, 19} : s[i] \in Digits
  /\ s[5] = "-" /\ s[8] = "-" /\ s[11] = "T" /\ s[14] = ":" /\ s[17] = ":"

\* lines 270-276: the time stamp of metadata.get("converted_at")
converted_at_from(converted_at_str) ==
  IF converted_at_str.t = "error" THEN Raised(converted_at_str.v)
  ELSE IF converted_at_str.t = "str" /\ IsIsoFormat(converted_at_str.v)
  THEN Returned([origin |-> "metadata", text |-> converted_at_str.v])
  ELSE Returned(UtcNow)

\* lines 269-276: the header's time stamp from the stage-1 metadata;
\* Raised when a .get is applied to a value that is no dict
converted_at_of(structured_logic_payload) ==
  converted_at_from(json_get(json_get(json_get(structured_logic_payload, <<"l","o","g","i","c">>, JDict(<<>>)),
                                      <<"m","e","t","a","d","a","t","a">>, JDict(<<>>)),
                             <<"c","o","n","v","e","r","t","e","d","_","a","t">>, JNull))

\* lines 278-288: the header, the completeness check, the document
assemble(a, manufacturer, model, goals, command_definitions, converted_at) ==
  IF converted_at.raised THEN converted_at
  ELSE IF goals = <<>> \/ command_definitions = <<>> THEN Raised(<<"L","L","M"," ","s","y","n","t","h","e","s","i","s"," ","r","e","t","u","r","n","e","d"," ","i","n","c","o","m","p","l","e","t","e"," ","T","D","L"," ","d","a","t","a">>)
  ELSE Returned(TDLDocument(TDLHeader(converted_at.document, a.source_requirement, manufacturer, model),
                            goals, command_definitions))

\* lines 262-276: the goals and the command definitions parsed, each
\* statement raising on a value of the wrong type
parse_payloads(a, manufacturer, model, structured_logic_payload, goal_code, used_signatures, definitions) ==
  IF goal_code.t # "str" THEN Raised(<<"e","x","p","e","c","t","e","d"," ","s","t","r","i","n","g"," ","o","r"," ","b","y","t","e","s","-","l","i","k","e"," ","o","b","j","e","c","t">>)
  ELSE IF definitions.t = "error" THEN Raised(definitions.v)
  ELSE IF used_signatures.t # "list" THEN Raised(<<"'">> \o type_name(used_signatures) \o <<"'"," ","o","b","j","e","c","t"," ","i","s"," ","n","o","t"," ","i","t","e","r","a","b","l","e">>)
  ELSE IF used_signatures.v # <<>> /\ definitions.t # "dict" THEN Raised(no_attribute(definitions, <<"g","e","t">>))
  ELSE assemble(a, manufacturer, model,
                _parse_goal_code(goal_code.v),
                _parse_command_definitions(definitions.v, used_signatures.v),
                converted_at_of(structured_logic_payload))

\* lines 260-288: what follows the three round trips.  The three payloads are
\* the JSON values parsed from the three responses.
llm_document(a, manufacturer, model, structured_logic_payload, architecture_payload, synthesis_payload) ==
  IF synthesis_payload.t # "dict" THEN Raised(no_attribute(synthesis_payload, <<"g","e","t">>))
  ELSE parse_payloads(a, manufacturer, model, structured_logic_payload,
                      dict_get(synthesis_payload.v, <<"g","o","a","l","_","c","o","d","e">>, JStr(<<>>)),
                      dict_get(synthesis_payload.v, <<"u","s","e","d","_","s","i","g","n","a","t","u","r","e","s">>, JList(<<>>)),
                      json_get(architecture_payload, <<"c","o","m","m","a","n","d","_","d","e","f","i","n","i","t","i","o","n","s">>, JDict(<<>>)))

\* lines 445-454 of generate_tdl_document: the except clause appends the
\* note, then the heuristic document is built from the analysis
fallback_note(exc) == <<"L","L","M","-","d","r","i","v","e","n"," ","T","D","L"," ","s","y","n","t","h","e","s","i","s"," ","f","a","i","l","e","d",";"," ","h","e","u","r","i","s","t","i","c"," ","f","a","l","l","b","a","c","k"," ","u","s","e","d","."," ","(">> \o exc \o <<")">>

\* with_note without the append
with_note_dropped(a, note) == a

\* with_note with the note put before the notes already there
with_note_first(a, note) == [a EXCEPT !.notes = <<note>> \o @]

with_note(a, note) == [a EXCEPT !.notes = Append(@, note)]

\* ------------------------------------------------------------------------
\* models.py: TDLDocument.to_text
\* ------------------------------------------------------------------------

\* datetime.isoformat() of the header's time stamp
isoformat(t) == IF t.origin = "utcnow" THEN <<"2","0","2","4","-","0","1","-","0","1","T","0","0",":","0","0",":","0","0">> ELSE t.text

\* lines 61-68
header_block(header) ==
  <<"H","E","A","D","E","R"," ","{","\n">>
  \o <<" "," "," "," ","C","o","n","v","e","r","t","e","d"," ","A","t",":"," ">> \o isoformat(header.converted_at) \o <<"\n">>
  \o <<" "," "," "," ","S","o","u","r","c","e"," ","R","e","q","u","i","r","e","m","e","n","t",":"," ","\"">> \o header.source_requirement \o <<"\"","\n">>
  \o <<" "," "," "," ","M","a","n","u","f","a","c","t","u","r","e","r",":"," ">> \o header.manufacturer \o <<"\n">>
  \o <<" "," "," "," ","M","o","d","e","l",":"," ">> \o header.model \o <<"\n">>
  \o <<"}","\n","\n">>

\* lines 70-78
goal_text(goal) ==
  <<"G","O","A","L"," ">> \o goal.name \o <<"(",")"," ","{","\n">>
  \o <<" "," "," "," ","/","/"," ">> \o goal.description \o <<"\n">>
  \o join(<<"\n">>, [i \in 1..Len(goal.commands) |-> <<" "," "," "," ","S","P","A","W","N"," ">> \o goal.commands[i]]) \o <<"\n">>
  \o <<"}","\n">>

\* lines 80-88
command_text(cmd) ==
  <<"C","O","M","M","A","N","D"," ","{","\n">>
  \o <<" "," "," "," ","D","E","F","I","N","E"," ">> \o cmd.name \o cmd.signature \o <<" ","{","\n">>
  \o <<" "," "," "," "," "," "," "," ">> \o cmd.body \o <<"\n">>
  \o <<" "," "," "," ","}","\n">>
  \o <<"}","\n">>

to_text(doc) ==
  strip(header_block(doc.header)
        \o join(<<"\n">>, [i \in 1..Len(doc.goals) |-> goal_text(doc.goals[i])])
        \o <<"\n","\n">>
        \o join(<<"\n">>, [i \in 1..Len(doc.commands) |-> command_text(doc.commands[i])]))

\* ------------------------------------------------------------------------
\* llm_client.py
\* ------------------------------------------------------------------------

\* str(x) of a JSON value that is a string or null (the values the answers
\* of AnalysisAnswers hold where str() is applied)
py_str(x) == IF x.t = "str" THEN x.v ELSE IF x.t = "null" THEN <<"N","o","n","e">> ELSE <<"?">>

\* [str(a) for a in (x or [])], x being a JSON list, null or absent
str_list(x) == IF x.t = "list" THEN [i \in 1..Len(x.v) |-> py_str(x.v[i])] ELSE <<>>

\* None for "" and None, else Some(str(x))
coerce_location(x) == IF x.t = "null" \/ (x.t = "str" /\ x.v = <<>>) THEN None ELSE Some(py_str(x))

\* the text is \d+(\.\d+)?, which float() accepts
IsNumberText(s) == s # <<>> /\ number_end_at(s, 1) = Len(s)

\* lines 65-69: one item; an item that float() rejects is passed over
coerce_item(k, x) ==
  IF x.t = "num" THEN <<Item(k, x.v)>>
  ELSE IF x.t = "str" /\ IsNumberText(x.v) THEN <<Item(k, float_milli(x.v))>>
  ELSE <<>>

RECURSIVE coerce_constraints(_)
\* lines 64-69: constraints[str(k)] = float(v) for the items in order
coerce_constraints(items) ==
  IF items = <<>> THEN <<>>
  ELSE coerce_item(items[1].key, items[1].value) \o coerce_constraints(Tail(items))

\* lines 61-78, constraints_obj being payload.get("constraints"); a value
\* that is falsy stands for {}, any other that is no dict has no .items()
coerce_with(payload, constraints_obj) ==
  IF \/ constraints_obj.t \in {"str", "list"} /\ constraints_obj.v # <<>>
     \/ constraints_obj.t = "num" /\ constraints_obj.v # 0
  THEN Raised(no_attribute(constraints_obj, <<"i","t","e","m","s">>))
  ELSE Returned([source_requirement |-> py_str(dict_get(payload, <<"s","o","u","r","c","e","_","r","e","q","u","i","r","e","m","e","n","t">>, JStr(<<>>))),
                 detected_actions |-> or_analyze(str_list(dict_get(payload, <<"d","e","t","e","c","t","e","d","_","a","c","t","i","o","n","s">>, JNull))),
                 objects |-> str_list(dict_get(payload, <<"o","b","j","e","c","t","s">>, JNull)),
                 source_location |-> coerce_location(dict_get(payload, <<"s","o","u","r","c","e","_","l","o","c","a","t","i","o","n">>, JNull)),
                 target_location |-> coerce_location(dict_get(payload, <<"t","a","r","g","e","t","_","l","o","c","a","t","i","o","n">>, JNull)),
                 constraints |-> IF constraints_obj.t = "dict" THEN coerce_constraints(constraints_obj.v) ELSE <<>>,
                 notes |-> <<>>])

\* payload is the JSON value of the model's answer; Raised when it is no dict
_coerce_analysis_dict(payload) ==
  IF payload.t # "dict" THEN Raised(no_attribute(payload, <<"g","e","t">>))
  ELSE coerce_with(payload.v, dict_get(payload.v, <<"c","o","n","s","t","r","a","i","n","t","s">>, JNull))

\* analysis_fallback without the note
analysis_fallback_silent(requirement, objects) == analyze_requirement_heuristic(requirement, objects)

\* requirement_analysis.py, lines 140-144: the except clause of analyze_requirement
analysis_fallback(requirement, objects) ==
  with_note(analyze_requirement_heuristic(requirement, objects), <<"L","L","M"," ","a","n","a","l","y","s","i","s"," ","f","a","i","l","e","d",";"," ","h","e","u","r","i","s","t","i","c"," ","f","a","l","l","b","a","c","k"," ","a","p","p","l","i","e","d",".">>)

\* ------------------------------------------------------------------------
\* rag.py.  The document store is the list of the *.md files under RAG_ROOT,
\* sorted by name, each [name, text].
\* ------------------------------------------------------------------------

MANUFACTURER_PARSING_DOCS ==
  << Item(<<"d","o","o","s","a","n">>, <<<<"d","o","o","s","a","n","_","j","o","b","f","i","l","e","_","s","y","n","t","a","x",".","m","d">>, <<"d","o","o","s","a","n","_","r","o","b","o","t","i","c","s","_","i","n","s","t","r","u","c","t","i","o","n","s",".","m","d">>, <<"T","D","L","s","e","t","2","d","o","o","s","a","n","_","m","a","p","p","i","n","g",".","m","d">>>>),
     Item(<<"h","y","u","n","d","a","i">>, <<<<"h","y","u","n","d","a","i","_","j","o","b","f","i","l","e","_","s","y","n","t","a","x",".","m","d">>, <<"h","y","u","n","d","a","i","_","r","o","b","o","t","i","c","s","_","i","n","s","t","r","u","c","t","i","o","n","s",".","m","d">>, <<"T","D","L","s","e","t","2","h","y","u","n","d","a","i","_","m","a","p","p","i","n","g",".","m","d">>>>) >>

MANUFACTURER_TDL_DOCS ==
  << Item(<<"d","o","o","s","a","n">>, <<<<"T","D","L","s","e","t",".","m","d">>, <<"T","D","L","s","e","t","2","d","o","o","s","a","n","_","m","a","p","p","i","n","g",".","m","d">>>>),
     Item(<<"h","y","u","n","d","a","i">>, <<<<"T","D","L","s","e","t",".","m","d">>, <<"T","D","L","s","e","t","2","h","y","u","n","d","a","i","_","m","a","p","p","i","n","g",".","m","d">>>>) >>

\* the text of the document `name`, in a list that is empty when there is none
read_text(store, name) ==
  IF \E k \in 1..Len(store) : store[k].name = name
  THEN <<store[Min({k \in 1..Len(store) : store[k].name = name})].text>>
  ELSE <<>>

RECURSIVE _read_documents(_, _)
\* the texts of those of `documents` that exist, in the order asked
_read_documents(store, documents) ==
  IF documents = <<>> THEN <<>>
  ELSE read_text(store, documents[1]) \o _read_documents(store, Tail(documents))

\* sorted(p.name for p in RAG_ROOT.glob("*.md"))
AllNames(store) == [i \in 1..Len(store) |-> store[i].name]

\* contents, or every document when there is none
or_every_document(store, contents) ==
  IF contents = <<>> THEN _read_documents(store, AllNames(store)) ELSE contents

get_parsing_instructions(store, manufacturer) ==
  strip(join(<<"\n","\n">>, or_every_document(store,
          _read_documents(store, dict_get(MANUFACTURER_PARSING_DOCS, lower(manufacturer), <<>>)))))

RECURSIVE dedupe(_, _)
\* dict.fromkeys(contents): first occurrences, in order
dedupe(contents, seen) ==
  IF contents = <<>> THEN <<>>
  ELSE IF contents[1] \in seen THEN dedupe(Tail(contents), seen)
  ELSE <<contents[1]>> \o dedupe(Tail(contents), seen \cup {contents[1]})

get_tdl_syntax_reference(store, manufacturer) ==
  strip(join(<<"\n","\n">>, dedupe(or_every_document(store,
          _read_documents(store, <<<<"T","D","L","s","e","t",".","m","d">>>>
                                 \o (IF manufacturer # <<>>
                                     THEN dict_get(MANUFACTURER_TDL_DOCS, lower(manufacturer), <<>>)
                                     ELSE <<>>))), {})))

\* ------------------------------------------------------------------------
\* llm_client.py: _extract_first_json_block
\* ------------------------------------------------------------------------

RECURSIVE json_block_to_first_close(_, _, _, _)
\* json_block_scan that returns at the first "}" it meets
json_block_to_first_close(text, start, i, depth) ==
  IF i > Len(text) THEN Raised(<<"U","n","b","a","l","a","n","c","e","d"," ","J","S","O","N"," ","b","r","a","c","e","s"," ","i","n"," ","m","o","d","e","l"," ","o","u","t","p","u","t">>)
  ELSE IF text[i] = "}" THEN Returned(SubSeq(text, start, i))
  ELSE json_block_to_first_close(text, start, i + 1, depth)

RECURSIVE json_block_scan(_, _, _, _)
\* lines 42-49: the loop from position i on, depth being the depth reached
json_block_scan(text, start, i, depth) ==
  IF i > Len(text) THEN Raised(<<"U","n","b","a","l","a","n","c","e","d"," ","J","S","O","N"," ","b","r","a","c","e","s"," ","i","n"," ","m","o","d","e","l"," ","o","u","t","p","u","t">>)
  ELSE IF text[i] = "{" THEN json_block_scan(text, start, i + 1, depth + 1)
  ELSE IF text[i] = "}"
       THEN (IF depth - 1 = 0 THEN Returned(SubSeq(text, start, i))
             ELSE json_block_scan(text, start, i + 1, depth - 1))
  ELSE json_block_scan(text, start, i + 1, depth)

_extract_first_json_block(text) ==
  IF find(text, <<"{">>) = 0 THEN Raised(<<"N","o"," ","J","S","O","N"," ","o","b","j","e","c","t"," ","s","t","a","r","t"," ","f","o","u","n","d"," ","i","n"," ","m","o","d","e","l"," ","o","u","t","p","u","t">>)
  ELSE json_block_scan(text, find(text, <<"{">>), find(text, <<"{">>), 0)
\* ------------------------------------------------------------------------
\* robot_selector.py.  payload_kg, reach_m and repeatability_mm are counted
\* in thousandths (grams, millimetres, micrometres), the weights of the
\* criteria and the energy scores in thousandths too.
\* ------------------------------------------------------------------------

RobotSpec(manufacturer, model, payload_kg, reach_m, repeatability_mm, energy_class) ==
  [manufacturer |-> manufacturer, model |-> model, payload_kg |-> payload_kg, reach_m |-> reach_m,
   repeatability_mm |-> repeatability_mm, energy_class |-> energy_class]

\* the first of the keys from_dict subscripts that data lacks, <<>> when it
\* holds them all
first_missing(data, keys) ==
  IF \A i \in 1..Len(keys) : HasKey(data.v, keys[i]) THEN None
  ELSE Some(keys[Min({i \in 1..Len(keys) : ~HasKey(data.v, keys[i])})])

\* lines 23-30 for a record that holds the subscripted keys; its numbers are
\* JSON numbers
spec_from(data) ==
  RobotSpec(py_str(dict_get(data.v, <<"m","a","n","u","f","a","c","t","u","r","e","r">>, JNull)), py_str(dict_get(data.v, <<"m","o","d","e","l">>, JNull)),
            dict_get(data.v, <<"p","a","y","l","o","a","d","_","k","g">>, JNull).v, dict_get(data.v, <<"r","e","a","c","h","_","m">>, JNull).v,
            dict_get(data.v, <<"r","e","p","e","a","t","a","b","i","l","i","t","y","_","m","m">>, JNull).v,
            py_str(dict_get(data.v, <<"e","n","e","r","g","y","_","c","l","a","s","s">>, JStr(<<"u","n","k","n","o","w","n">>))))

\* from_dict with a missing number read as 0
from_dict_lenient(data) ==
  Returned(RobotSpec(py_str(dict_get(data.v, <<"m","a","n","u","f","a","c","t","u","r","e","r">>, JStr(<<>>))), py_str(dict_get(data.v, <<"m","o","d","e","l">>, JStr(<<>>))),
                     dict_get(data.v, <<"p","a","y","l","o","a","d","_","k","g">>, JNum(0)).v, dict_get(data.v, <<"r","e","a","c","h","_","m">>, JNum(0)).v,
                     dict_get(data.v, <<"r","e","p","e","a","t","a","b","i","l","i","t","y","_","m","m">>, JNum(0)).v,
                     py_str(dict_get(data.v, <<"e","n","e","r","g","y","_","c","l","a","s","s">>, JStr(<<"u","n","k","n","o","w","n">>)))))

\* RobotSpec.from_dict: data[key] of a missing key raises KeyError(key)
from_dict(data) ==
  IF first_missing(data, <<<<"m","a","n","u","f","a","c","t","u","r","e","r">>, <<"m","o","d","e","l">>, <<"p","a","y","l","o","a","d","_","k","g">>, <<"r","e","a","c","h","_","m">>, <<"r","e","p","e","a","t","a","b","i","l","i","t","y","_","m","m">>>>) # None
  THEN Raised(<<"'">> \o first_missing(data, <<<<"m","a","n","u","f","a","c","t","u","r","e","r">>, <<"m","o","d","e","l">>, <<"p","a","y","l","o","a","d","_","k","g">>, <<"r","e","a","c","h","_","m">>, <<"r","e","p","e","a","t","a","b","i","l","i","t","y","_","m","m">>>>)[1] \o <<"'">>)
  ELSE Returned(spec_from(data))

\* the list comprehension of line 46 from the specs read already
load_step(loaded, r) == IF loaded.raised THEN loaded ELSE IF r.raised THEN r ELSE Returned(Append(loaded.document, r.document))

RECURSIVE load_from(_, _)
load_from(data, loaded) ==
  IF data = <<>> THEN loaded ELSE load_from(Tail(data), load_step(loaded, from_dict(data[1])))

\* load_robot_specs of a file that holds the JSON list data
load_robot_specs(data) == load_from(data, Returned(<<>>))

EvaluationCriteria(weight_payload, weight_reach, weight_repeatability, weight_energy) ==
  [weight_payload |-> weight_payload, weight_reach |-> weight_reach,
   weight_repeatability |-> weight_repeatability, weight_energy |-> weight_energy]

\* EvaluationCriteria(): the default weights 0.4, 0.3, 0.2, 0.1
DefaultCriteria == EvaluationCriteria(400, 300, 200, 100)

ENERGY_SCORES == << Item(<<"A">>, 1000), Item(<<"B">>, 800), Item(<<"C">>, 600), Item(<<"D">>, 400), Item(<<"u","n","k","n","o","w","n">>, 500) >>

\* models.py: RobotCandidate
RobotCandidate(spec, score, compliant) ==
  [manufacturer |-> spec.manufacturer, model |-> spec.model, payload |-> spec.payload_kg,
   reach |-> spec.reach_m, repeatability |-> spec.repeatability_mm, energy_class |-> spec.energy_class,
   score |-> score, passes_constraints |-> compliant]

\* max(0.0, x)
nonneg(x) == IF x < 0 THEN 0 ELSE x

\* the score as a multiple of 1/20,000,000:
\*   payload/20 * w_p + reach/2 * w_r + max(0, 1 - repeatability/0.1) * w_rep + energy * w_e
compute_score(robot, criteria) ==
  robot.payload_kg * criteria.weight_payload
  + 10 * robot.reach_m * criteria.weight_reach
  + 200 * nonneg(100 - robot.repeatability_mm) * criteria.weight_repeatability
  + 20 * dict_get(ENERGY_SCORES, robot.energy_class, dict_get(ENERGY_SCORES, <<"u","n","k","n","o","w","n">>, 0)) * criteria.weight_energy

\* round(score, 3) of a score in multiples of 1/20,000,000, in thousandths;
\* a tie goes to the even neighbour
round3(n) ==
  IF 2 * (n % 20000) > 20000 \/ (2 * (n % 20000) = 20000 /\ (n \div 20000) % 2 = 1)
  THEN (n \div 20000) + 1
  ELSE n \div 20000

\* passes_constraints with a robot at the limit rejected
passes_constraints_strict(robot, constraints) ==
  IF HasKey(constraints, <<"p","a","y","l","o","a","d","_","k","g">>) /\ robot.payload_kg <= dict_get(constraints, <<"p","a","y","l","o","a","d","_","k","g">>, 0) THEN FALSE
  ELSE IF HasKey(constraints, <<"r","e","a","c","h","_","m">>) /\ robot.reach_m <= dict_get(constraints, <<"r","e","a","c","h","_","m">>, 0) THEN FALSE
  ELSE TRUE

passes_constraints(robot, constraints) ==
  IF HasKey(constraints, <<"p","a","y","l","o","a","d","_","k","g">>) /\ robot.payload_kg < dict_get(constraints, <<"p","a","y","l","o","a","d","_","k","g">>, 0) THEN FALSE
  ELSE IF HasKey(constraints, <<"r","e","a","c","h","_","m">>) /\ robot.reach_m < dict_get(constraints, <<"r","e","a","c","h","_","m">>, 0) THEN FALSE
  ELSE TRUE

\* candidate_of with the score of a robot that fails the constraints kept
candidate_of_scored(spec, criteria, compliant) ==
  RobotCandidate(spec, round3(compute_score(spec, criteria)), compliant)

\* lines 88-100: the candidate of one spec; round(0.0, 3) is 0
candidate_of(spec, criteria, compliant) ==
  RobotCandidate(spec, IF compliant THEN round3(compute_score(spec, criteria)) ELSE 0, compliant)

\* lines 87-101: the loop over robot_specs
candidates_of(robot_specs, criteria, constraints) ==
  [i \in 1..Len(robot_specs) |->
     candidate_of(robot_specs[i], criteria, passes_constraints(robot_specs[i], constraints))]

\* insert_by_score with c put before the candidates of its own score
insert_by_score_unstable(sorted, c) ==
  SubSeq(sorted, 1, Cardinality({i \in 1..Len(sorted) : sorted[i].score > c.score}))
  \o <<c>>
  \o SubSeq(sorted, Cardinality({i \in 1..Len(sorted) : sorted[i].score > c.score}) + 1, Len(sorted))

\* the list with c inserted behind every candidate whose score is not below c's
insert_by_score(sorted, c) ==
  SubSeq(sorted, 1, Cardinality({i \in 1..Len(sorted) : sorted[i].score >= c.score}))
  \o <<c>>
  \o SubSeq(sorted, Cardinality({i \in 1..Len(sorted) : sorted[i].score >= c.score}) + 1, Len(sorted))

RECURSIVE sort_by_score(_, _)
\* candidates.sort(key=lambda c: c.score, reverse=True): a stable sort, the
\* candidates taken in order and each inserted into the sorted list
sort_by_score(candidates, sorted) ==
  IF candidates = <<>> THEN sorted
  ELSE sort_by_score(Tail(candidates), insert_by_score(sorted, candidates[1]))

\* the commands of the first goal
execute_goal_commands_first(document) == IF Len(document.goals) > 0 THEN document.goals[1].commands ELSE <<>>

\* document.goals[1].commands if len(document.goals) > 1 else []
execute_goal_commands(document) == IF Len(document.goals) > 1 THEN document.goals[2].commands ELSE <<>>

\* lines 83-85
validation_notes_of(commands) ==
  IF \E i \in 1..Len(commands) : contains(commands[i], <<"M","o","v","e">>) THEN <<>>
  ELSE <<<<"E","x","e","c","u","t","e"," ","g","o","a","l"," ","d","o","e","s"," ","n","o","t"," ","c","o","n","t","a","i","n"," ","a","n"," ","e","x","p","l","i","c","i","t"," ","m","o","v","e","m","e","n","t"," ","c","o","m","m","a","n","d",".">>>>

\* lines 103-107
verification_notes_of(candidates) ==
  IF \E i \in 1..Len(candidates) : candidates[i].passes_constraints
  THEN <<<<"A","t"," ","l","e","a","s","t"," ","o","n","e"," ","r","o","b","o","t"," ","s","a","t","i","s","f","i","e","s"," ","p","a","y","l","o","a","d"," ","a","n","d"," ","r","e","a","c","h"," ","r","e","q","u","i","r","e","m","e","n","t","s",".">>>>
  ELSE <<<<"N","o"," ","r","o","b","o","t"," ","s","a","t","i","s","f","i","e","s"," ","t","h","e"," ","m","a","n","d","a","t","o","r","y"," ","c","o","n","s","t","r","a","i","n","t","s",".">>>>

\* lines 103-115: the notes, the sort and the result
selection_of(document, candidates) ==
  [candidates |-> sort_by_score(candidates, <<>>),
   validation_notes |-> validation_notes_of(execute_goal_commands(document)),
   verification_notes |-> verification_notes_of(candidates)]

evaluate_robots(document, robot_specs, criteria, constraints) ==
  selection_of(document, candidates_of(robot_specs, criteria, constraints))

\* ------------------------------------------------------------------------
\* validators.py.  A character beyond ASCII is the string "U+XXXX" of its
\* code point.
\* ------------------------------------------------------------------------

ValidationReport(summary, confirm_prompt, issues) ==
  [summary |-> summary, confirm_prompt |-> confirm_prompt, issues |-> issues]

VerificationReport(syntax_ok, schema_ok, logical_ok, details) ==
  [syntax_ok |-> syntax_ok, schema_ok |-> schema_ok, logical_ok |-> logical_ok, details |-> details]

\* GOAL_PATTERN from the end e of the name: \(\)\s*{
goal_pattern_tail(s, e) == StartsWithAt(s, e + 1, <<"(",")">>) /\ StartsWithAt(s, SkipSpace(s, e + 3) + 1, <<"{">>)

\* GOAL_PATTERN from the end e of the white space: ([A-Za-z0-9_]+) and the rest
goal_pattern_name(s, e) == RunEnd(s, e + 1, WordChars) > e /\ goal_pattern_tail(s, RunEnd(s, e + 1, WordChars))

\* GOAL_PATTERN matches at i: GOAL\s+([A-Za-z0-9_]+)\(\)\s*{
goal_pattern_at(s, i) ==
  StartsWithAt(s, i, <<"G","O","A","L">>) /\ SkipSpace(s, i + 4) >= i + 4 /\ goal_pattern_name(s, SkipSpace(s, i + 4))

\* bool(GOAL_PATTERN.search(s))
goal_pattern_search(s) == \E i \in 1..Len(s) : goal_pattern_at(s, i)

\* COMMAND_PATTERN from the end e of the white space behind DEFINE: ([A-Za-z0-9_]+)\(
command_pattern_name(s, e) ==
  RunEnd(s, e + 1, WordChars) > e /\ StartsWithAt(s, RunEnd(s, e + 1, WordChars) + 1, <<"(">>)

\* COMMAND_PATTERN from the end e of the white space behind the brace: DEFINE\s+ and the rest
command_pattern_define(s, e) ==
  StartsWithAt(s, e + 1, <<"D","E","F","I","N","E">>) /\ SkipSpace(s, e + 7) >= e + 7 /\ command_pattern_name(s, SkipSpace(s, e + 7))

\* COMMAND_PATTERN from the end e of the white space behind COMMAND: {\s* and the rest
command_pattern_brace(s, e) == StartsWithAt(s, e + 1, <<"{">>) /\ command_pattern_define(s, SkipSpace(s, e + 2))

\* COMMAND_PATTERN matches at i: COMMAND\s*{\s*DEFINE\s+([A-Za-z0-9_]+)\(
command_pattern_at(s, i) == StartsWithAt(s, i, <<"C","O","M","M","A","N","D">>) /\ command_pattern_brace(s, SkipSpace(s, i + 7))

\* bool(COMMAND_PATTERN.search(s))
command_pattern_search(s) == \E i \in 1..Len(s) : command_pattern_at(s, i)

\* VALIDATION_TEMPLATE.format(steps=steps)
VALIDATION_TEMPLATE(steps) ==
  <<"T","h","e"," ","g","e","n","e","r","a","t","e","d"," ","T","D","L"," ","d","e","c","o","m","p","o","s","e","s"," ","t","h","e"," ","t","a","s","k"," ","i","n","t","o"," ","t","h","e"," ","f","o","l","l","o","w","i","n","g"," ","h","i","g","h","-","l","e","v","e","l"," ","s","t","e","p","s",":"," ">> \o steps
  \o <<"."," ","P","l","e","a","s","e"," ","c","o","n","f","i","r","m"," ","t","h","a","t"," ","t","h","e"," ","r","o","b","o","t"," ","s","h","o","u","l","d"," ","a","c","t"," ","t","h","i","s"," ","w","a","y",".">>

CONFIRM_PROMPT == <<"U+B85C","U+BD07","U+C774"," ","U+C704","U+C640"," ","U+AC19","U+C774"," ","U+B3D9","U+C791","U+D558","U+B294"," ","U+AC83","U+C774"," ","U+B9DE","U+C2B5","U+B2C8","U+AE4C","?"," ","(","U+C608","/","U+C544","U+B2C8","U+C624",")">>

\* name.replace(old, new) of single characters
replace(name, old, new) == [i \in 1..Len(name) |-> IF name[i] = old THEN new ELSE name[i]]

\* goal_names with the names left as they are
goal_names_raw(goals) == [i \in 1..Len(goals) |-> goals[i].name]

\* line 22
goal_names(goals) == [i \in 1..Len(goals) |-> replace(goals[i].name, "_", " ")]

\* lines 24-26
issues_of(goals) ==
  IF \E i \in 1..Len(goals) : contains(goals[i].name, <<"E","x","e","c","u","t","e">>) THEN <<>>
  ELSE <<<<"N","o"," ","E","x","e","c","u","t","e"," ","g","o","a","l"," ","f","o","u","n","d",";"," ","c","o","n","f","i","r","m"," ","t","a","s","k"," ","b","r","e","a","k","d","o","w","n",".">>>>

build_validation_report(document) ==
  ValidationReport(VALIDATION_TEMPLATE(join(<<","," ">>, goal_names(document.goals))), CONFIRM_PROMPT,
                   issues_of(document.goals))

\* lines 39-41: a goal without commands
without_commands(checked, goal) ==
  IF goal.commands = <<>>
  THEN [logical_ok |-> FALSE,
        logical_details |-> Append(checked.logical_details, <<"G","o","a","l"," ">> \o goal.name \o <<" ","h","a","s"," ","n","o"," ","c","o","m","m","a","n","d","s">>)]
  ELSE checked

\* without_movement looking for "move"
without_movement_lower(checked, goal) ==
  IF startswith(goal.name, <<"E","x","e","c","u","t","e">>) /\ \A i \in 1..Len(goal.commands) : ~contains(goal.commands[i], <<"m","o","v","e">>)
  THEN [logical_ok |-> FALSE,
        logical_details |-> Append(checked.logical_details,
                                   <<"E","x","e","c","u","t","e"," ","g","o","a","l"," ">> \o goal.name \o <<" ","d","o","e","s"," ","n","o","t"," ","c","o","n","t","a","i","n"," ","a","n","y"," ","m","o","v","e","m","e","n","t"," ","c","o","m","m","a","n","d","s">>)]
  ELSE checked

\* lines 42-46: an Execute goal none of whose commands holds "Move"
without_movement(checked, goal) ==
  IF startswith(goal.name, <<"E","x","e","c","u","t","e">>) /\ \A i \in 1..Len(goal.commands) : ~contains(goal.commands[i], <<"M","o","v","e">>)
  THEN [logical_ok |-> FALSE,
        logical_details |-> Append(checked.logical_details,
                                   <<"E","x","e","c","u","t","e"," ","g","o","a","l"," ">> \o goal.name \o <<" ","d","o","e","s"," ","n","o","t"," ","c","o","n","t","a","i","n"," ","a","n","y"," ","m","o","v","e","m","e","n","t"," ","c","o","m","m","a","n","d","s">>)]
  ELSE checked

RECURSIVE logical_checks(_, _)
\* lines 36-46: the loop over the goals
logical_checks(goals, checked) ==
  IF goals = <<>> THEN checked
  ELSE logical_checks(Tail(goals), without_movement(without_commands(checked, goals[1]), goals[1]))

\* lines 48-49
or_positive(logical_details) ==
  IF logical_details = <<>> THEN <<<<"T","D","L"," ","c","o","m","m","a","n","d","s"," ","p","a","s","s"," ","l","o","g","i","c","a","l"," ","c","o","n","s","i","s","t","e","n","c","y"," ","c","h","e","c","k","s",".">>>> ELSE logical_details

\* schema_ok_of with the commands not counted
schema_ok_of_goals(document) == Len(document.goals) >= 3

\* line 34
schema_ok_of(document) == Len(document.goals) >= 3 /\ Len(document.commands) > 0

\* line 32
syntax_ok_of(tdl_text) == goal_pattern_search(tdl_text) /\ command_pattern_search(tdl_text)

\* lines 51-56
report_of(document, checked) ==
  VerificationReport(syntax_ok_of(to_text(document)), schema_ok_of(document),
                     checked.logical_ok, or_positive(checked.logical_details))

verify_tdl(document) ==
  report_of(document, logical_checks(document.goals, [logical_ok |-> TRUE, logical_details |-> <<>>]))

\* ------------------------------------------------------------------------
\* The environment: requirement texts, document stores, model answers
\* ------------------------------------------------------------------------

Phrases ==
  { <<"P","i","c","k"," ","t","h","e"," ","b","o","x"," ","a","n","d"," ","p","l","a","c","e"," ","a"," ","C","U","P"," ","f","r","o","m"," ","A"," ","t","o"," ","B">>,
    <<"M","o","v","e"," ","t","h","e"," ","p","a","r","t"," ","f","r","o","m"," ","s","t","a","t","i","o","n","A"," ","t","o"," ","H","o","m","e">>,
    <<"h","o","l","d"," ","2",".","5"," ","k","g"," ","p","a","y","l","o","a","d",","," ","r","e","a","c","h"," ","8","0","0"," ","m","m">>,
    <<"r","e","s","e","t">> }

RECURSIVE TextsOf(_)
\* the texts of at most n phrases
TextsOf(n) ==
  IF n = 0 THEN {<<>>}
  ELSE TextsOf(n - 1) \cup {IF t = <<>> THEN p ELSE t \o <<" ">> \o p : t \in TextsOf(n - 1), p \in Phrases}

Texts == TextsOf(MaxPhrases)

\* a manufacturer and the document store of the installation
Deployments ==
  << [manufacturer |-> <<"D","o","o","s","a","n">>, model |-> <<"H","2","0","1","7">>,
      store |-> << [name |-> <<"T","D","L","s","e","t",".","m","d">>, text |-> <<"G","O","A","L"," ","a","n","d"," ","C","O","M","M","A","N","D"," ","s","y","n","t","a","x">>],
                   [name |-> <<"d","o","o","s","a","n","_","j","o","b","f","i","l","e","_","s","y","n","t","a","x",".","m","d">>, text |-> <<"j","o","b"," ","f","i","l","e"," ","r","u","l","e","s">>] >>],
     [manufacturer |-> <<"A","c","m","e">>, model |-> <<"X","1">>, store |-> <<>>] >>

\* what a call of the model's analyze_requirement may answer: the JSON value
\* its backend parsed, before _coerce_analysis_dict
AnalysisAnswers(text) ==
  << JDict(<< Item(<<"s","o","u","r","c","e","_","r","e","q","u","i","r","e","m","e","n","t">>, JStr(text)),
              Item(<<"d","e","t","e","c","t","e","d","_","a","c","t","i","o","n","s">>, JList(<<JStr(<<"p","i","c","k">>), JStr(<<"p","l","a","c","e">>)>>)),
              Item(<<"o","b","j","e","c","t","s">>, JList(<<JStr(<<"b","o","x">>)>>)),
              Item(<<"s","o","u","r","c","e","_","l","o","c","a","t","i","o","n">>, JStr(<<"A">>)),
              Item(<<"t","a","r","g","e","t","_","l","o","c","a","t","i","o","n">>, JStr(<<"d","r","o","p","o","f","f">>)),
              Item(<<"c","o","n","s","t","r","a","i","n","t","s">>, JDict(<<Item(<<"p","a","y","l","o","a","d","_","k","g">>, JNum(5000)), Item(<<"s","p","e","e","d">>, JStr(<<"f","a","s","t">>))>>)) >>),
     JDict(<< Item(<<"s","o","u","r","c","e","_","r","e","q","u","i","r","e","m","e","n","t">>, JStr(<<"P","a","r","a","p","h","r","a","s","e","d"," ","t","a","s","k">>)),
              Item(<<"d","e","t","e","c","t","e","d","_","a","c","t","i","o","n","s">>, JList(<<JStr(<<"M","o","v","e">>), JStr(<<"w","a","i","t">>)>>)),
              Item(<<"s","o","u","r","c","e","_","l","o","c","a","t","i","o","n">>, JStr(<<>>)),
              Item(<<"t","a","r","g","e","t","_","l","o","c","a","t","i","o","n">>, JNull) >>),
     JDict(<<>>),
     JList(<<>>) >>

SigSetTool == <<"S","e","t","T","o","o","l","(","t","o","o","l","_","n","a","m","e",")">>

SigMoveLinear == <<"M","o","v","e","L","i","n","e","a","r","(","p","o","s","e",")">>

SigRelease == <<"R","e","l","e","a","s","e","C","o","m","p","l","i","a","n","c","e","(",")">>

SigBroken == <<"B","r","o","k","e","n","(",")">>

SigUnknown == <<"U","n","k","n","o","w","n","(","x",")">>

CommandDefinitionsAnswer ==
  JDict(<< Item(SigSetTool, JStr(<<"C","O","M","M","A","N","D"," ","{","\n"," "," "," "," ","D","E","F","I","N","E"," ","S","e","t","T","o","o","l","(","t","o","o","l","_","n","a","m","e",")"," ","{","\n"," "," "," "," "," "," "," "," ","t","o","o","l","i","n","g",".","a","c","t","i","v","a","t","e","(","t","o","o","l","_","n","a","m","e",")",";","\n"," "," "," "," ","}","\n","}">>)),
           Item(SigMoveLinear, JStr(<<"D","E","F","I","N","E"," ","M","o","v","e","L","i","n","e","a","r","(","p","o","s","e",")"," ","{"," ","m","o","t","i","o","n",".","e","x","e","c","u","t","e","(","p","o","s","e",")",";"," ","}">>)),
           Item(SigRelease, JStr(<<"R","e","l","e","a","s","e","C","o","m","p","l","i","a","n","c","e","(",")"," ","{","\n"," ","c","o","m","p","l","i","a","n","c","e",".","r","e","l","e","a","s","e","(",")",";","\n","}">>)),
           Item(SigBroken, JStr(<<"B","r","o","k","e","n",":"," ","n","o"," ","d","e","f","i","n","i","t","i","o","n">>)) >>)

GoalCodeThree ==
  <<"G","O","A","L"," ","I","n","i","t","i","a","l","i","z","e","_","P","r","o","c","e","s","s","(",")"," ","{","\n"," "," "," "," ","/","/"," ","P","r","e","p","a","r","e"," ","t","h","e"," ","t","o","o","l","\n"," "," "," "," ","S","P","A","W","N"," ","S","e","t","T","o","o","l","(","\"","g","r","i","p","p","e","r","\"",")","\n","}","\n","\n","G","O","A","L"," ","E","x","e","c","u","t","e","_","P","r","o","c","e","s","s","(",")"," ","{","\n"," "," "," "," ","S","P","A","W","N"," ","M","o","v","e","L","i","n","e","a","r","(","P","1",")","\n","}","\n","\n","G","O","A","L"," ","F","i","n","a","l","i","z","e","_","P","r","o","c","e","s","s","(",")"," ","{","\n"," "," "," "," ","/","/"," ","S","a","f","e"," ","s","t","a","t","e","\n"," "," "," "," ","S","P","A","W","N"," ","R","e","l","e","a","s","e","C","o","m","p","l","i","a","n","c","e","(",")","\n","}","\n">>

GoalCodeOne == <<"H","e","r","e"," ","i","s"," ","t","h","e"," ","c","o","d","e",":","\n","G","O","A","L"," ","M","a","i","n","(",")"," ","{","\n"," "," "," "," ","S","P","A","W","N"," ","M","o","v","e","L","i","n","e","a","r","(","P","1",")","\n"," "," "," "," ","S","P","A","W","N"," ","M","o","v","e","L","i","n","e","a","r","(","P","2",")","\n","}">>

GoalCodeUncovered ==
  <<"G","O","A","L"," ","S","e","t","u","p","(",")"," ","{","\n"," "," "," "," ","S","P","A","W","N"," ","S","e","t","T","o","o","l","(","\"","w","e","l","d","e","r","\"",")","\n","}","\n","G","O","A","L"," ","W","o","r","k","(",")"," ","{","\n"," "," "," "," ","S","P","A","W","N"," ","W","e","l","d","(","s","e","a","m",")","\n","}","\n","G","O","A","L"," ","E","n","d","(",")"," ","{","\n"," "," "," "," ","S","P","A","W","N"," ","R","e","l","e","a","s","e","C","o","m","p","l","i","a","n","c","e","(",")","\n"," "," "," "," ","S","P","A","W","N"," ","S","e","t","T","o","o","l","(","\"","n","o","n","e","\"",")","\n","}">>

\* the JSON values a stage-1 answer may parse to
Stage1Answers ==
  << JDict(<< Item(<<"m","a","n","u","f","a","c","t","u","r","e","r">>, JStr(<<"d","o","o","s","a","n">>)),
              Item(<<"l","o","g","i","c">>, JDict(<< Item(<<"i","n","i","t","i","a","l","i","z","a","t","i","o","n">>, JList(<<>>)), Item(<<"m","a","i","n","_","s","e","q","u","e","n","c","e">>, JList(<<>>)),
                                     Item(<<"f","i","n","a","l","i","z","a","t","i","o","n">>, JList(<<>>)),
                                     Item(<<"m","e","t","a","d","a","t","a">>, JDict(<<Item(<<"c","o","n","v","e","r","t","e","d","_","a","t">>, JStr(<<"2","0","2","5","-","0","1","-","0","2","T","0","3",":","0","4",":","0","5">>))>>)) >>)) >>),
     JDict(<<>>),
     JList(<<>>) >>

\* the JSON values a stage-2 answer may parse to
Stage2Answers ==
  << JDict(<< Item(<<"g","o","a","l","_","t","e","m","p","l","a","t","e","s">>, JList(<<>>)), Item(<<"s","p","a","w","n","a","b","l","e","_","c","o","m","m","a","n","d","s">>, JList(<<>>)),
              Item(<<"c","o","m","m","a","n","d","_","d","e","f","i","n","i","t","i","o","n","s">>, CommandDefinitionsAnswer) >>),
     JDict(<< Item(<<"c","o","m","m","a","n","d","_","d","e","f","i","n","i","t","i","o","n","s">>, CommandDefinitionsAnswer) >>),
     JDict(<< Item(<<"g","o","a","l","_","t","e","m","p","l","a","t","e","s">>, JList(<<>>)), Item(<<"s","p","a","w","n","a","b","l","e","_","c","o","m","m","a","n","d","s">>, JList(<<>>)) >>) >>

\* the JSON values a stage-3 answer may parse to
Stage3Answers ==
  << JDict(<< Item(<<"g","o","a","l","_","c","o","d","e">>, JStr(GoalCodeThree)),
              Item(<<"u","s","e","d","_","s","i","g","n","a","t","u","r","e","s">>, JList(<<SigSetTool, SigMoveLinear, SigRelease, SigMoveLinear>>)) >>),
     JDict(<< Item(<<"g","o","a","l","_","c","o","d","e">>, JStr(GoalCodeOne)), Item(<<"u","s","e","d","_","s","i","g","n","a","t","u","r","e","s">>, JList(<<SigMoveLinear>>)) >>),
     JDict(<< Item(<<"g","o","a","l","_","c","o","d","e">>, JStr(GoalCodeUncovered)),
              Item(<<"u","s","e","d","_","s","i","g","n","a","t","u","r","e","s">>, JList(<<SigUnknown, SigSetTool, SigBroken>>)) >>),
     JDict(<< Item(<<"u","s","e","d","_","s","i","g","n","a","t","u","r","e","s">>, JList(<<SigSetTool>>)) >>),
     JDict(<< Item(<<"g","o","a","l","_","c","o","d","e">>, JStr(GoalCodeThree)) >>),
     JDict(<< Item(<<"g","o","a","l","_","c","o","d","e">>, JStr(<<"n","o"," ","g","o","a","l"," ","b","l","o","c","k","s"," ","h","e","r","e">>)), Item(<<"u","s","e","d","_","s","i","g","n","a","t","u","r","e","s">>, JList(<<SigSetTool>>)) >>),
     JDict(<< Item(<<"g","o","a","l","_","c","o","d","e">>, JStr(GoalCodeThree)), Item(<<"u","s","e","d","_","s","i","g","n","a","t","u","r","e","s">>, JList(<<SigBroken, SigUnknown>>)) >>),
     JList(<<>>) >>

\* how a call of generate_json may end: it raises, it returns text that
\* json.loads rejects, or it returns text that parses
Outcomes == {"raise", "malformed", "json"}

ExcOf(outcome) == IF outcome = "raise" THEN <<"b","a","c","k","e","n","d"," ","u","n","a","v","a","i","l","a","b","l","e">> ELSE <<"E","x","p","e","c","t","i","n","g"," ","v","a","l","u","e",":"," ","l","i","n","e"," ","1"," ","c","o","l","u","m","n"," ","1"," ","(","c","h","a","r"," ","0",")">>


\* the robot database of an installation, as load_robot_specs reads it
RobotCatalogue ==
  << RobotSpec(<<"D","o","o","s","a","n">>, <<"H","2","0","1","7">>, 20000, 1700, 100, <<"B">>),
     RobotSpec(<<"D","o","o","s","a","n">>, <<"M","0","6","0","9">>, 6000, 900, 30, <<"A">>),
     RobotSpec(<<"H","y","u","n","d","a","i">>, <<"H","H","7">>, 7000, 700, 50, <<"E">>),
     RobotSpec(<<"A","c","m","e">>, <<"X","1">>, 10000, 800, 200, <<"C">>) >>

RECURSIVE RobotLists(_)
\* the databases of at most n robots
RobotLists(n) ==
  IF n = 0 THEN {<<>>}
  ELSE RobotLists(n - 1)
       \cup {Append(l, RobotCatalogue[k]) : l \in RobotLists(n - 1), k \in 1..Len(RobotCatalogue)}

\* the record of a robot in the database file
record_of(spec) ==
  JDict(<< Item(<<"m","a","n","u","f","a","c","t","u","r","e","r">>, JStr(spec.manufacturer)), Item(<<"m","o","d","e","l">>, JStr(spec.model)),
           Item(<<"p","a","y","l","o","a","d","_","k","g">>, JNum(spec.payload_kg)), Item(<<"r","e","a","c","h","_","m">>, JNum(spec.reach_m)),
           Item(<<"r","e","p","e","a","t","a","b","i","l","i","t","y","_","m","m">>, JNum(spec.repeatability_mm)), Item(<<"e","n","e","r","g","y","_","c","l","a","s","s">>, JStr(spec.energy_class)) >>)

RECURSIVE items_without(_, _)
items_without(items, key) ==
  IF items = <<>> THEN <<>>
  ELSE IF items[1].key = key THEN items_without(Tail(items), key)
  ELSE <<items[1]>> \o items_without(Tail(items), key)

RecordKeys == {<<"m","a","n","u","f","a","c","t","u","r","e","r">>, <<"m","o","d","e","l">>, <<"p","a","y","l","o","a","d","_","k","g">>, <<"r","e","a","c","h","_","m">>, <<"r","e","p","e","a","t","a","b","i","l","i","t","y","_","m","m">>, <<"e","n","e","r","g","y","_","c","l","a","s","s">>}

\* the database files of at most n records: the records of robots of the
\* catalogue, the last of them possibly without one of its keys
RobotDatabases(n) ==
  {[i \in 1..Len(l) |-> record_of(l[i])] : l \in RobotLists(n)}
  \cup {[i \in 1..Len(l) |-> IF i = Len(l) THEN JDict(items_without(record_of(l[i]).v, key)) ELSE record_of(l[i])] :
          l \in RobotLists(n) \ {<<>>}, key \in RecordKeys}

CriteriaChoices == << DefaultCriteria, EvaluationCriteria(250, 250, 250, 250) >>

\* the requirement texts a workflow is run on
WorkflowTexts ==
  << <<"D","e","l","i","v","e","r"," ","1","0"," ","k","g",","," ","r","e","a","c","h"," ","8","0","0"," ","m","m">>, <<"M","o","v","e"," ","t","h","e"," ","p","a","r","t"," ","f","r","o","m"," ","s","t","a","t","i","o","n","A"," ","t","o"," ","H","o","m","e">>, <<"r","e","s","e","t">>, <<"h","o","l","d"," ","2",".","5"," ","k","g"," ","p","a","y","l","o","a","d">>,
     <<"G","O","A","L"," ","X","(">> >>

\* the goals of the documents the reports are built on
GoalChoices ==
  << GoalNode(<<"I","n","i","t","i","a","l","i","z","e","_","P","r","o","c","e","s","s">>, <<"P","r","e","p","a","r","e"," ","r","o","b","o","t">>, <<<<"S","e","t","J","o","i","n","t","V","e","l","o","c","i","t","y","(","3","0",")">>, <<"S","e","t","T","o","o","l","(","\"","g","r","i","p","p","e","r","\"",")">>>>),
     GoalNode(<<"E","x","e","c","u","t","e","_","P","r","o","c","e","s","s">>, <<"T","r","a","n","s","f","e","r"," ","o","b","j","e","c","t">>, <<<<"G","r","a","s","p","O","b","j","e","c","t","(","4","0",")">>, <<"M","o","v","e","L","i","n","e","a","r","(","P","1",")">>>>),
     GoalNode(<<"E","x","e","c","u","t","e","_","W","e","l","d">>, <<"W","e","l","d"," ","t","h","e"," ","s","e","a","m">>, <<<<"S","e","t","T","o","o","l","(","\"","M","o","v","e","T","o","o","l","\"",")">>>>),
     GoalNode(<<"F","i","n","a","l","i","z","e","_","P","r","o","c","e","s","s">>, <<"R","e","t","u","r","n"," ","r","o","b","o","t"," ","t","o"," ","s","a","f","e"," ","s","t","a","t","e">>, <<>>),
     GoalNode(<<"P","r","e","E","x","e","c","u","t","e">>, <<"C","h","e","c","k">>, <<<<"R","e","l","e","a","s","e","C","o","m","p","l","i","a","n","c","e","(",")">>>>),
     GoalNode(<<"E","x","e","c","u","t","e">>, <<>>, <<>>) >>

RECURSIVE GoalLists(_)
\* the goal lists of at most n goals
GoalLists(n) ==
  IF n = 0 THEN {<<>>}
  ELSE GoalLists(n - 1) \cup {Append(l, GoalChoices[k]) : l \in GoalLists(n - 1), k \in 1..Len(GoalChoices)}

\* the command lists of those documents
CommandChoices == {<<>>, <<dict_get(COMMAND_LIBRARY, <<"M","o","v","e","L","i","n","e","a","r">>, <<>>)>>}

\* the documents the reports are built on
ReportDocuments ==
  {TDLDocument(TDLHeader(UtcNow, <<"w","e","l","d"," ","t","h","e"," ","s","e","a","m">>, <<"D","o","o","s","a","n">>, <<"H","2","0","1","7">>), goals, commands) :
     goals \in GoalLists(MaxGoals), commands \in CommandChoices}

\* words of requirement texts: keywords of the four actions in any case, a
\* keyword inside a longer word, and a word that is no keyword
ActionWords == { <<"P","u","t">>, <<"g","r","a","b">>, <<"c","a","r","r","y">>, <<"W","A","I","T">>, <<"g","o">>, <<"o","f","f","s","e","t">>, <<"L","i","f","t">>, <<"h","o","l","d">> }

RECURSIVE ActionTextsOf(_)
\* the texts of at most n words
ActionTextsOf(n) ==
  IF n = 0 THEN {<<>>}
  ELSE ActionTextsOf(n - 1)
       \cup {IF t = <<>> THEN w ELSE t \o <<" ">> \o w : t \in ActionTextsOf(n - 1), w \in ActionWords}

ActionTexts == ActionTextsOf(MaxWords)

\* requirement texts of the chained stages: one with a transfer and no
\* object, one with an object and limits
\* the database file that holds the catalogue, last robot first, and the
\* same file with the model of its last record missing
CatalogueDatabases ==
  { [i \in 1..Len(RobotCatalogue) |-> record_of(RobotCatalogue[Len(RobotCatalogue) + 1 - i])],
    [i \in 1..Len(RobotCatalogue) |->
       IF i = Len(RobotCatalogue) THEN JDict(items_without(record_of(RobotCatalogue[1]).v, <<"m","o","d","e","l">>))
       ELSE record_of(RobotCatalogue[Len(RobotCatalogue) + 1 - i])] }

PipelineTexts == << <<"M","o","v","e"," ","f","r","o","m"," ","s","t","a","t","i","o","n","A"," ","t","o"," ","H","o","m","e">>, <<"h","o","l","d"," ","2",".","5"," ","k","g"," ","p","a","y","l","o","a","d",","," ","r","e","a","c","h"," ","8","0","0"," ","m","m">> >>

\* installations by what their document store yields: parsing instructions
\* and no syntax reference (TDLset.md holds white space only), no document at
\* all, documents of white space only, and a syntax reference that also
\* serves as parsing instructions
StoreDeployments ==
  << [manufacturer |-> <<"D","o","o","s","a","n">>, model |-> <<"H","2","0","1","7">>,
      store |-> << [name |-> <<"T","D","L","s","e","t",".","m","d">>, text |-> <<" ","\n">>],
                   [name |-> <<"d","o","o","s","a","n","_","j","o","b","f","i","l","e","_","s","y","n","t","a","x",".","m","d">>, text |-> <<"j","o","b"," ","f","i","l","e"," ","r","u","l","e","s">>] >>],
     [manufacturer |-> <<"A","c","m","e">>, model |-> <<"X","1">>, store |-> <<>>],
     [manufacturer |-> <<"A","c","m","e">>, model |-> <<"X","1">>, store |-> << [name |-> <<"n","o","t","e","s",".","m","d">>, text |-> <<"\n"," ","\n">>] >>],
     [manufacturer |-> <<"H","y","u","n","d","a","i">>, model |-> <<"H","H","7">>,
      store |-> << [name |-> <<"T","D","L","s","e","t",".","m","d">>, text |-> <<"G","O","A","L"," ","a","n","d"," ","C","O","M","M","A","N","D"," ","s","y","n","t","a","x">>] >>] >>

\* the action names of an analysis: the three that have commands, one that
\* has none, and one in another case than the generator tests for
ActionNames == { <<"p","i","c","k">>, <<"m","o","v","e">>, <<"p","l","a","c","e">>, <<"w","a","i","t">>, <<"M","o","v","e">> }

RECURSIVE ActionLists(_)
\* the lists of at most n action names
ActionLists(n) ==
  IF n = 0 THEN {<<>>}
  ELSE ActionLists(n - 1) \cup {Append(l, a) : l \in ActionLists(n - 1), a \in ActionNames}

\* a location that is missing, one of the table in another case than the
\* table's, and one the table does not hold
SourceLocations == { None, Some(<<"P","i","c","k","u","p">>), Some(<<"s","t","a","t","i","o","n","A">>) }

TargetLocations == { None, Some(<<"H","o","m","e">>), Some(<<"d","o","c","k">>) }

\* the analyses a model may return for the requirement: detected_actions is
\* never empty (_coerce_analysis_dict, line 73)
ExecuteAnalyses ==
  { [source_requirement |-> <<"H","a","n","d","l","e"," ","t","h","e"," ","b","o","x">>, detected_actions |-> l, objects |-> <<<<"b","o","x">>>>,
     source_location |-> s, target_location |-> t, constraints |-> <<>>, notes |-> <<>>] :
      l \in ActionLists(MaxActions) \ {<<>>}, s \in SourceLocations, t \in TargetLocations }

\* the characters of a model output: the two braces and a character of prose
BraceChars == { "{", "}", "x" }

RECURSIVE BraceTexts(_)
\* the model outputs of at most n characters
BraceTexts(n) ==
  IF n = 0 THEN {<<>>}
  ELSE BraceTexts(n - 1) \cup {Append(t, c) : t \in BraceTexts(n - 1), c \in BraceChars}

\* lines of the body of a GOAL block, as written and as what they are: a
\* comment with a text, a comment without one, a later kind of comment, and
\* two SPAWN lines, one of them indented and followed by white space
GoalLineChoices ==
  { [kind |-> "comment", text |-> <<"P","i","c","k"," ","i","t">>, written |-> <<"/","/"," ","P","i","c","k"," ","i","t">>],
    [kind |-> "comment", text |-> <<>>, written |-> <<"/","/">>],
    [kind |-> "comment", text |-> <<"L","a","t","e","r">>, written |-> <<" "," "," "," ","/","/","L","a","t","e","r">>],
    [kind |-> "spawn", text |-> <<"A","(",")">>, written |-> <<"S","P","A","W","N"," ","A","(",")">>],
    [kind |-> "spawn", text |-> <<"B","(","1",")">>, written |-> <<" "," ","S","P","A","W","N"," "," "," ","B","(","1",")"," "," ">>] }

RECURSIVE GoalBodies(_)
\* the bodies of at most n lines
GoalBodies(n) ==
  IF n = 0 THEN {<<>>}
  ELSE GoalBodies(n - 1) \cup {Append(b, l) : b \in GoalBodies(n - 1), l \in GoalLineChoices}

\* a block of the goal code: its name, its parameters and the lines of its body
GoalBlock(name, params, lines) == [name |-> name, params |-> params, lines |-> lines]

\* the text of a block
block_text(b) ==
  <<"G","O","A","L"," ">> \o b.name \o b.params \o <<" ","{","\n">> \o join(<<"\n">>, [i \in 1..Len(b.lines) |-> b.lines[i].written]) \o <<"\n","}","\n">>

RECURSIVE blocks_text(_)
\* the goal code of the blocks, prose before each of them
blocks_text(blocks) ==
  IF blocks = <<>> THEN <<"d","o","n","e",".">>
  ELSE <<"N","e","x","t"," ","b","l","o","c","k",":","\n">> \o block_text(blocks[1]) \o blocks_text(Tail(blocks))

\* the blocks a model wrote: one block of at most MaxLines lines, alone or
\* followed by a second block
GoalCodeBlocks ==
  {<<GoalBlock(<<"F","i","r","s","t","_","1">>, <<"(",")">>, b)>> : b \in GoalBodies(MaxLines)}
  \cup {<<GoalBlock(<<"F","i","r","s","t","_","1">>, <<"(",")">>, b),
          GoalBlock(<<"S","e","c","o","n","d">>, <<" ","(","x",","," ","y",")">>, <<[kind |-> "comment", text |-> <<"t","w","o">>, written |-> <<"/","/"," ","t","w","o">>],
                                          [kind |-> "spawn", text |-> <<"C","(",")">>, written |-> <<"S","P","A","W","N"," ","C","(",")">>]>>)>> :
          b \in GoalBodies(MaxLines)}

\* the signatures a synthesis answer may list: three the architecture answer
\* defines, one it answers with a text that is no definition, one it omits
UsedSignatureNames == { SigSetTool, SigMoveLinear, SigRelease, SigBroken, SigUnknown }

RECURSIVE UsedSignatureLists(_)
\* the used_signatures lists of at most n signatures
UsedSignatureLists(n) ==
  IF n = 0 THEN {<<>>}
  ELSE UsedSignatureLists(n - 1) \cup {Append(l, s) : l \in UsedSignatureLists(n - 1), s \in UsedSignatureNames}

\* the goal code of a synthesis answer: with a GOAL block, and without one
SynthesisGoalCodes == { GoalCodeOne, <<"n","o"," ","g","o","a","l"," ","b","l","o","c","k","s"," ","h","e","r","e">> }

\* the definitions written in CommandDefinitionsAnswer, read by hand
WrittenDefinitions ==
  << Item(SigSetTool, CommandDefinition(<<"S","e","t","T","o","o","l">>, <<"(","t","o","o","l","_","n","a","m","e",")">>, <<"t","o","o","l","i","n","g",".","a","c","t","i","v","a","t","e","(","t","o","o","l","_","n","a","m","e",")",";">>)),
     Item(SigMoveLinear, CommandDefinition(<<"M","o","v","e","L","i","n","e","a","r">>, <<"(","p","o","s","e",")">>, <<"m","o","t","i","o","n",".","e","x","e","c","u","t","e","(","p","o","s","e",")",";">>)),
     Item(SigRelease, CommandDefinition(<<"R","e","l","e","a","s","e","C","o","m","p","l","i","a","n","c","e">>, <<"(",")">>, <<"c","o","m","p","l","i","a","n","c","e",".","r","e","l","e","a","s","e","(",")",";">>)) >>

\* ------------------------------------------------------------------------
\* State
\* ------------------------------------------------------------------------

VARIABLES
  pc,                        \* the position of the caller
  requirement,               \* the requirement text
  deployment,                \* manufacturer, model and document store
  analysis_llm,              \* an llm is passed to analyze_requirement
  synthesis_llm,             \* an llm is passed to generate_tdl_document
  analysis,                  \* the RequirementAnalysisResult
  structured_logic_payload,  \* the parsed stage-1 answer
  architecture_payload,      \* the parsed stage-2 answer
  synthesis_payload,         \* the parsed stage-3 answer
  document,                  \* the TDLDocument returned
  calls,                     \* history: the generate_json calls and how each ended
  analysis_path,             \* history: "heuristic", "llm" or "fallback"
  synthesis_path,            \* history: "heuristic", "llm" or "fallback"
  runs,                      \* the documents of repeated heuristic runs on one text
  robot_specs,               \* the robots of the workflow's database
  criteria,                  \* the workflow's evaluation_criteria
  selection,                 \* the RobotSelectionResult
  validation_report,         \* the ValidationReport
  verification_report,       \* the VerificationReport
  robot_database,            \* the JSON list read from the workflow's robot database
  error,                     \* the exception raised to the caller of the workflow
  library,                   \* the objects of COMMAND_LIBRARY, the table of the module
  requests,                  \* per request served: the goals and the command objects of its document
  argument,                  \* the argument of a function of the package called on its own
  returned                   \* what that call returned or raised

inputs == <<requirement, deployment, analysis_llm, synthesis_llm>>

payloads == <<structured_logic_payload, architecture_payload, synthesis_payload>>

robot_vars == <<runs, robot_specs, criteria, selection>>

report_vars == <<validation_report, verification_report>>

load_vars == <<robot_database, error>>

request_vars == <<library, requests>>

call_vars == <<argument, returned>>

vars == <<pc, inputs, analysis, payloads, document, calls, analysis_path, synthesis_path, robot_vars,
          report_vars, load_vars, request_vars, call_vars>>

NoAnalysis == [source_requirement |-> <<>>, detected_actions |-> <<>>, objects |-> <<>>,
               source_location |-> None, target_location |-> None,
               constraints |-> <<>>, notes |-> <<>>]

NoDocument == TDLDocument(TDLHeader(UtcNow, <<>>, <<>>, <<>>), <<>>, <<>>)

NoSelection == [candidates |-> <<>>, validation_notes |-> <<>>, verification_notes |-> <<>>]

NoValidationReport == ValidationReport(<<>>, <<>>, <<>>)

NoVerificationReport == VerificationReport(FALSE, FALSE, FALSE, <<>>)

\* what no call has touched yet
Untouched ==
  /\ analysis = NoAnalysis
  /\ structured_logic_payload = JNull
  /\ architecture_payload = JNull
  /\ synthesis_payload = JNull
  /\ document = NoDocument
  /\ calls = <<>>
  /\ analysis_path = ""
  /\ synthesis_path = ""
  /\ runs = <<>>
  /\ selection = NoSelection
  /\ validation_report = NoValidationReport
  /\ verification_report = NoVerificationReport
  /\ robot_database = <<>>
  /\ error = None
  /\ library = COMMAND_LIBRARY
  /\ requests = <<>>
  /\ argument = None
  /\ returned = None

\* ------------------------------------------------------------------------
\* analyze_requirement, then generate_tdl_document
\* ------------------------------------------------------------------------

Init ==
  /\ pc = "start"
  /\ requirement \in Texts
  /\ \E d \in 1..Len(Deployments) : deployment = Deployments[d]
  /\ analysis_llm \in BOOLEAN
  /\ synthesis_llm \in BOOLEAN
  /\ robot_specs = <<>>
  /\ criteria = DefaultCriteria
  /\ Untouched

\* analyze_requirement(requirement): no llm
AnalyzeHeuristic ==
  /\ pc = "start"
  /\ ~analysis_llm
  /\ \E objects \in detect_object_terms(requirement) :
       analysis' = analyze_requirement_heuristic(requirement, objects)
  /\ analysis_path' = "heuristic"
  /\ pc' = "analyzed"
  /\ UNCHANGED <<inputs, payloads, document, calls, synthesis_path, robot_vars, report_vars, load_vars, request_vars, call_vars>>

\* analyze_requirement(requirement, llm): llm.analyze_requirement returns
AnalyzeWithLLM ==
  /\ pc = "start"
  /\ analysis_llm
  /\ \E k \in 1..Len(AnalysisAnswers(requirement)) :
       \E r \in {_coerce_analysis_dict(AnalysisAnswers(requirement)[k])} :
         ~r.raised /\ analysis' = r.document
  /\ analysis_path' = "llm"
  /\ pc' = "analyzed"
  /\ UNCHANGED <<inputs, payloads, document, calls, synthesis_path, robot_vars, report_vars, load_vars, request_vars, call_vars>>

\* analyze_requirement(requirement, llm): llm.analyze_requirement raises (the
\* backend fails, or its answer is rejected by _coerce_analysis_dict)
AnalyzeLLMFails ==
  /\ pc = "start"
  /\ analysis_llm
  /\ \E objects \in detect_object_terms(requirement) :
       analysis' = analysis_fallback(requirement, objects)
  /\ analysis_path' = "fallback"
  /\ pc' = "analyzed"
  /\ UNCHANGED <<inputs, payloads, document, calls, synthesis_path, robot_vars, report_vars, load_vars, request_vars, call_vars>>

\* generate_tdl_document, lines 445-454: the exception is caught, the note
\* appended and the heuristic document returned
Fallback(exc) ==
  /\ analysis' = with_note(analysis, fallback_note(exc))
  /\ document' = _generate_tdl_document_heuristic(analysis', deployment.manufacturer, deployment.model)
  /\ synthesis_path' = "fallback"

\* generate_tdl_document(analysis, manufacturer, model, llm) with the llm of
\* the analysis, whose first generate_json raises
GenerateWithAnalysisModel ==
  /\ pc = "analyzed"
  /\ IF analysis_llm
     THEN calls' = Append(calls, [stage |-> "analysis", outcome |-> "raise"]) /\ Fallback(ExcOf("raise"))
     ELSE /\ document' = _generate_tdl_document_heuristic(analysis, deployment.manufacturer, deployment.model)
          /\ synthesis_path' = "heuristic"
          /\ UNCHANGED <<analysis, calls>>
  /\ pc' = "done"
  /\ UNCHANGED <<inputs, payloads, analysis_path, robot_vars, report_vars, load_vars, request_vars, call_vars>>

\* generate_tdl_document(analysis, manufacturer, model): no llm
GenerateHeuristic ==
  /\ pc = "analyzed"
  /\ ~synthesis_llm
  /\ document' = _generate_tdl_document_heuristic(analysis, deployment.manufacturer, deployment.model)
  /\ synthesis_path' = "heuristic"
  /\ pc' = "done"
  /\ UNCHANGED <<inputs, analysis, payloads, calls, analysis_path, robot_vars, report_vars, load_vars, request_vars, call_vars>>

\* stage_after with the failed stage tried again
stage_after_retry(stage, outcome) ==
  IF outcome # "json" THEN stage
  ELSE IF stage = "analysis" THEN "architecture"
  ELSE IF stage = "architecture" THEN "synthesis"
  ELSE "done"

\* where _generate_tdl_document_with_llm goes after the round trip of `stage`
\* ended with `outcome`: the statements are sequential, and an exception
\* leaves the function
stage_after(stage, outcome) ==
  IF outcome # "json" THEN "done"
  ELSE IF stage = "analysis" THEN "architecture"
  ELSE IF stage = "architecture" THEN "synthesis"
  ELSE "done"

\* GenerateStart without the test of the parsing instructions
GenerateStartUnchecked ==
  /\ pc = "analyzed"
  /\ synthesis_llm
  /\ pc' = "analysis"
  /\ UNCHANGED <<analysis, document, synthesis_path>>
  /\ UNCHANGED <<inputs, payloads, calls, analysis_path, robot_vars, report_vars, load_vars, request_vars, call_vars>>

\* generate_tdl_document(analysis, manufacturer, model, llm), lines 222-226:
\* up to the first prompt
GenerateStart ==
  /\ pc = "analyzed"
  /\ synthesis_llm
  /\ IF get_parsing_instructions(deployment.store, deployment.manufacturer) = <<>>
     THEN Fallback(<<"N","o"," ","p","a","r","s","i","n","g"," ","i","n","s","t","r","u","c","t","i","o","n","s"," ","a","v","a","i","l","a","b","l","e"," ","f","o","r"," ","p","r","o","m","p","t","i","n","g">>) /\ pc' = "done"
     ELSE pc' = "analysis" /\ UNCHANGED <<analysis, document, synthesis_path>>
  /\ UNCHANGED <<inputs, payloads, calls, analysis_path, robot_vars, report_vars, load_vars, request_vars, call_vars>>

\* one round trip: llm.generate_json is called and json.loads applied to
\* what it returns
RoundTrip(stage, outcome) ==
  /\ calls' = Append(calls, [stage |-> stage, outcome |-> outcome])
  /\ pc' = stage_after(stage, outcome)

\* the round trip of `stage` raises, in generate_json or in json.loads
RoundTripFails(stage) ==
  \E outcome \in Outcomes \ {"json"} :
    /\ RoundTrip(stage, outcome)
    /\ Fallback(ExcOf(outcome))
    /\ UNCHANGED payloads

\* lines 227-233: the stage-1 round trip
AnalysisStage ==
  /\ pc = "analysis"
  /\ \/ \E k \in 1..Len(Stage1Answers) :
          /\ RoundTrip("analysis", "json")
          /\ structured_logic_payload' = Stage1Answers[k]
          /\ UNCHANGED <<architecture_payload, synthesis_payload, analysis, document, synthesis_path>>
     \/ RoundTripFails("analysis")
  /\ UNCHANGED <<inputs, analysis_path, robot_vars, report_vars, load_vars, request_vars, call_vars>>

\* lines 235-248: the stage-2 round trip
ArchitectureStage ==
  /\ pc = "architecture"
  /\ \/ \E k \in 1..Len(Stage2Answers) :
          /\ RoundTrip("architecture", "json")
          /\ architecture_payload' = Stage2Answers[k]
          /\ UNCHANGED <<structured_logic_payload, synthesis_payload, analysis, document, synthesis_path>>
     \/ RoundTripFails("architecture")
  /\ UNCHANGED <<inputs, analysis_path, robot_vars, report_vars, load_vars, request_vars, call_vars>>

\* lines 250-288: the stage-3 round trip and the assembly of the document
SynthesisStage ==
  /\ pc = "synthesis"
  /\ \/ \E k \in 1..Len(Stage3Answers) :
          /\ RoundTrip("synthesis", "json")
          /\ synthesis_payload' = Stage3Answers[k]
          /\ UNCHANGED <<structured_logic_payload, architecture_payload>>
          /\ \E r \in {llm_document(analysis, deployment.manufacturer, deployment.model,
                                    structured_logic_payload, architecture_payload, Stage3Answers[k])} :
               IF r.raised
               THEN Fallback(r.exc)
               ELSE /\ document' = r.document
                    /\ synthesis_path' = "llm"
                    /\ UNCHANGED analysis
     \/ RoundTripFails("synthesis")
  /\ UNCHANGED <<inputs, analysis_path, robot_vars, report_vars, load_vars, request_vars, call_vars>>

Next ==
  \/ AnalyzeHeuristic
  \/ AnalyzeWithLLM
  \/ AnalyzeLLMFails
  \/ GenerateHeuristic
  \/ GenerateStart
  \/ AnalysisStage
  \/ ArchitectureStage
  \/ SynthesisStage

Spec == Init /\ [][Next]_vars

\* ------------------------------------------------------------------------
\* Repeated runs of the heuristic pipeline on one text: every run is a run
\* of the program, with the iteration order of its own set of objects
\* ------------------------------------------------------------------------

InitRuns ==
  /\ pc = "run"
  /\ requirement \in Texts
  /\ \E d \in 1..Len(Deployments) : deployment = Deployments[d]
  /\ analysis_llm = FALSE
  /\ synthesis_llm = FALSE
  /\ robot_specs = <<>>
  /\ criteria = DefaultCriteria
  /\ Untouched

\* analyze_requirement(requirement) of one more run
RunAnalyze ==
  /\ pc = "run"
  /\ Len(runs) < MaxRuns
  /\ \E objects \in detect_object_terms(requirement) :
       analysis' = analyze_requirement_heuristic(requirement, objects)
  /\ analysis_path' = "heuristic"
  /\ pc' = "run_analyzed"
  /\ UNCHANGED <<inputs, payloads, document, calls, synthesis_path, robot_vars, report_vars, load_vars, request_vars, call_vars>>

\* generate_tdl_document(analysis, manufacturer, model) of that run
RunGenerate ==
  /\ pc = "run_analyzed"
  /\ document' = _generate_tdl_document_heuristic(analysis, deployment.manufacturer, deployment.model)
  /\ synthesis_path' = "heuristic"
  /\ runs' = Append(runs, document')
  /\ pc' = "run"
  /\ UNCHANGED <<inputs, analysis, payloads, calls, analysis_path, robot_specs, criteria, selection,
                 report_vars, load_vars, request_vars, call_vars>>

NextRuns ==
  \/ RunAnalyze
  \/ RunGenerate

SpecRuns == InitRuns /\ [][NextRuns]_vars

\* ------------------------------------------------------------------------
\* NL2TDLWorkflow.run: analyze_requirement with the workflow's llm,
\* generate_tdl_document without one, the two reports, load_robot_specs,
\* evaluate_robots
\* ------------------------------------------------------------------------

InitWorkflow ==
  /\ pc = "start"
  /\ \E t \in 1..Len(WorkflowTexts) : requirement = WorkflowTexts[t]
  /\ \E d \in 1..Len(Deployments) : deployment = Deployments[d]
  /\ analysis_llm \in BOOLEAN
  /\ synthesis_llm = FALSE
  /\ robot_specs = <<>>
  /\ \E c \in 1..Len(CriteriaChoices) : criteria = CriteriaChoices[c]
  /\ Untouched

\* workflow.py line 58
BuildValidationReport ==
  /\ pc = "done"
  /\ validation_report' = build_validation_report(document)
  /\ pc' = "validated"
  /\ UNCHANGED <<inputs, analysis, payloads, document, calls, analysis_path, synthesis_path, robot_vars,
                 verification_report, load_vars, request_vars, call_vars>>

\* workflow.py line 59
VerifyTdl ==
  /\ pc = "validated"
  /\ verification_report' = verify_tdl(document)
  /\ pc' = "verified"
  /\ UNCHANGED <<inputs, analysis, payloads, document, calls, analysis_path, synthesis_path, robot_vars,
                 validation_report, load_vars, request_vars, call_vars>>

\* workflow.py line 61: load_robot_specs(self.robot_database) returns the
\* specs, or the exception of from_dict leaves run
LoadRobotSpecsFrom(databases) ==
  /\ pc = "verified"
  /\ robot_database' \in databases
  /\ \E r \in {load_robot_specs(robot_database')} :
       IF r.raised
       THEN error' = Some(r.exc) /\ pc' = "raised" /\ UNCHANGED robot_specs
       ELSE robot_specs' = r.document /\ pc' = "loaded" /\ UNCHANGED error
  /\ UNCHANGED <<inputs, analysis, payloads, document, calls, analysis_path, synthesis_path,
                 runs, criteria, selection, report_vars, request_vars, call_vars>>

LoadRobotSpecs == LoadRobotSpecsFrom(RobotDatabases(MaxRobots))

\* workflow.py lines 62-67: evaluate_robots(document=tdl_document, robot_specs,
\* criteria=self.evaluation_criteria, constraints=analysis.constraints)
EvaluateRobots ==
  /\ pc = "loaded"
  /\ selection' = evaluate_robots(document, robot_specs, criteria, analysis.constraints)
  /\ pc' = "selected"
  /\ UNCHANGED <<inputs, analysis, payloads, document, calls, analysis_path, synthesis_path,
                 runs, robot_specs, criteria, report_vars, load_vars, request_vars, call_vars>>

NextWorkflow ==
  \/ AnalyzeHeuristic
  \/ AnalyzeWithLLM
  \/ AnalyzeLLMFails
  \/ GenerateHeuristic
  \/ BuildValidationReport
  \/ VerifyTdl
  \/ LoadRobotSpecs
  \/ EvaluateRobots

SpecWorkflow == InitWorkflow /\ [][NextWorkflow]_vars

\* ------------------------------------------------------------------------
\* build_validation_report and verify_tdl applied to a document
\* ------------------------------------------------------------------------

InitReports ==
  /\ pc = "done"
  /\ requirement = <<>>
  /\ deployment = Deployments[1]
  /\ analysis_llm = FALSE
  /\ synthesis_llm = FALSE
  /\ robot_specs = <<>>
  /\ criteria = DefaultCriteria
  /\ analysis = NoAnalysis
  /\ structured_logic_payload = JNull
  /\ architecture_payload = JNull
  /\ synthesis_payload = JNull
  /\ document \in ReportDocuments
  /\ calls = <<>>
  /\ analysis_path = ""
  /\ synthesis_path = ""
  /\ runs = <<>>
  /\ selection = NoSelection
  /\ validation_report = NoValidationReport
  /\ verification_report = NoVerificationReport
  /\ robot_database = <<>>
  /\ error = None
  /\ library = COMMAND_LIBRARY
  /\ requests = <<>>
  /\ argument = None
  /\ returned = None

NextReports ==
  \/ BuildValidationReport
  \/ VerifyTdl

SpecReports == InitReports /\ [][NextReports]_vars

\* ------------------------------------------------------------------------
\* analyze_requirement without a model, on texts of action words
\* ------------------------------------------------------------------------

InitActions ==
  /\ pc = "start"
  /\ requirement \in ActionTexts
  /\ deployment = Deployments[1]
  /\ analysis_llm = FALSE
  /\ synthesis_llm = FALSE
  /\ robot_specs = <<>>
  /\ criteria = DefaultCriteria
  /\ Untouched

NextActions == AnalyzeHeuristic

SpecActions == InitActions /\ [][NextActions]_vars

\* ------------------------------------------------------------------------
\* The stages chained by a caller that may hand a model to
\* generate_tdl_document: analysis, generation on either path, the two
\* reports, the robot database, the evaluation
\* ------------------------------------------------------------------------

InitPipeline ==
  /\ pc = "start"
  /\ \E t \in 1..Len(PipelineTexts) : requirement = PipelineTexts[t]
  /\ \E d \in 1..Len(Deployments) : deployment = Deployments[d]
  /\ analysis_llm \in BOOLEAN
  /\ synthesis_llm \in BOOLEAN
  /\ robot_specs = <<>>
  /\ criteria = DefaultCriteria
  /\ Untouched

\* load_robot_specs on the database file of the installation
LoadCatalogue == LoadRobotSpecsFrom(CatalogueDatabases)

NextPipeline ==
  \/ AnalyzeHeuristic
  \/ AnalyzeWithLLM
  \/ AnalyzeLLMFails
  \/ GenerateHeuristic
  \/ GenerateStart
  \/ AnalysisStage
  \/ ArchitectureStage
  \/ SynthesisStage
  \/ BuildValidationReport
  \/ VerifyTdl
  \/ LoadCatalogue
  \/ EvaluateRobots

SpecPipeline == InitPipeline /\ [][NextPipeline]_vars

\* ------------------------------------------------------------------------
\* Requests served by one process: each gets the document of the heuristic
\* pipeline, and the holder of a document may assign to the fields of its
\* goals and command definitions (models.py: the dataclasses are not frozen)
\* ------------------------------------------------------------------------

\* what the document of the goals holds: the GoalNode objects built for it
\* and the command objects gathered for them
held_by(goals) == [goals |-> goals, commands |-> _gather_command_refs(goals)]

\* the command definition a reference leads to
held_command(table, ref) == dict_get(table, ref.key, <<>>)

\* the goals and commands read through the document of a request
document_view(table, request) ==
  [goals |-> request.goals,
   commands |-> [i \in 1..Len(request.commands) |-> held_command(table, request.commands[i])]]

NewBody == <<"p","a","s","s",";">>

NewDescription == <<"c","h","a","n","g","e","d">>

InitRequests ==
  /\ pc = "serving"
  /\ requirement = <<>>
  /\ deployment = Deployments[1]
  /\ analysis_llm = FALSE
  /\ synthesis_llm = FALSE
  /\ robot_specs = <<>>
  /\ criteria = DefaultCriteria
  /\ Untouched

served_vars == <<pc, inputs, analysis, payloads, document, calls, analysis_path, synthesis_path, robot_vars,
                 report_vars, load_vars, call_vars>>

\* one more request: analyze_requirement(text), then generate_tdl_document
Request ==
  /\ Len(requests) < MaxRequests
  /\ \E t \in 1..Len(PipelineTexts) :
       \E objects \in detect_object_terms(PipelineTexts[t]) :
         requests' = Append(requests,
                            held_by(_build_goals_heuristic(analyze_requirement_heuristic(PipelineTexts[t], objects))))
  /\ UNCHANGED <<served_vars, library>>

\* document.commands[i].body = NewBody, by the holder of the document of request r
ModifyCommand ==
  /\ \E r \in 1..Len(requests) :
       \E i \in 1..Len(requests[r].commands) :
         /\ held_command(library, requests[r].commands[i]).body # NewBody
         /\ library' = dict_set(library, requests[r].commands[i].key,
                                [held_command(library, requests[r].commands[i]) EXCEPT !.body = NewBody])
  /\ UNCHANGED <<served_vars, requests>>

\* document.goals[i].description = NewDescription, by the holder of the
\* document of request r
ModifyGoal ==
  /\ \E r \in 1..Len(requests) :
       \E i \in 1..Len(requests[r].goals) :
         /\ requests[r].goals[i].description # NewDescription
         /\ requests' = [requests EXCEPT ![r].goals[i].description = NewDescription]
  /\ UNCHANGED <<served_vars, library>>

NextRequests ==
  \/ Request
  \/ ModifyCommand
  \/ ModifyGoal

SpecRequests == InitRequests /\ [][NextRequests]_vars

\* ------------------------------------------------------------------------
\* generate_tdl_document with a model, on the document stores of several
\* installations
\* ------------------------------------------------------------------------

InitStores ==
  /\ pc = "start"
  /\ requirement = PipelineTexts[1]
  /\ \E d \in 1..Len(StoreDeployments) : deployment = StoreDeployments[d]
  /\ analysis_llm = FALSE
  /\ synthesis_llm = TRUE
  /\ robot_specs = <<>>
  /\ criteria = DefaultCriteria
  /\ Untouched

NextStores ==
  \/ AnalyzeHeuristic
  \/ GenerateStart
  \/ AnalysisStage
  \/ ArchitectureStage
  \/ SynthesisStage

SpecStores == InitStores /\ [][NextStores]_vars

\* ------------------------------------------------------------------------
\* generate_tdl_document without a model on an analysis the model backend
\* returned, then the two reports on its document
\* ------------------------------------------------------------------------

InitExecute ==
  /\ pc = "analyzed"
  /\ requirement = <<"H","a","n","d","l","e"," ","t","h","e"," ","b","o","x">>
  /\ deployment = Deployments[1]
  /\ analysis_llm = TRUE
  /\ synthesis_llm = FALSE
  /\ robot_specs = <<>>
  /\ criteria = DefaultCriteria
  /\ analysis \in ExecuteAnalyses
  /\ structured_logic_payload = JNull
  /\ architecture_payload = JNull
  /\ synthesis_payload = JNull
  /\ document = NoDocument
  /\ calls = <<>>
  /\ analysis_path = "llm"
  /\ synthesis_path = ""
  /\ runs = <<>>
  /\ selection = NoSelection
  /\ validation_report = NoValidationReport
  /\ verification_report = NoVerificationReport
  /\ robot_database = <<>>
  /\ error = None
  /\ library = COMMAND_LIBRARY
  /\ requests = <<>>
  /\ argument = None
  /\ returned = None

NextExecute ==
  \/ GenerateHeuristic
  \/ BuildValidationReport
  \/ VerifyTdl

SpecExecute == InitExecute /\ [][NextExecute]_vars

\* ------------------------------------------------------------------------
\* Functions of the package called on their own
\* ------------------------------------------------------------------------

\* no workflow is run
Idle ==
  /\ requirement = <<>>
  /\ deployment = Deployments[1]
  /\ analysis_llm = FALSE
  /\ synthesis_llm = FALSE
  /\ robot_specs = <<>>
  /\ criteria = DefaultCriteria
  /\ analysis = NoAnalysis
  /\ structured_logic_payload = JNull
  /\ architecture_payload = JNull
  /\ synthesis_payload = JNull
  /\ document = NoDocument
  /\ calls = <<>>
  /\ analysis_path = ""
  /\ synthesis_path = ""
  /\ runs = <<>>
  /\ selection = NoSelection
  /\ validation_report = NoValidationReport
  /\ verification_report = NoVerificationReport
  /\ robot_database = <<>>
  /\ error = None
  /\ library = COMMAND_LIBRARY
  /\ requests = <<>>

idle_vars == <<inputs, analysis, payloads, document, calls, analysis_path, synthesis_path, robot_vars,
               report_vars, load_vars, request_vars>>

\* _extract_first_json_block(text) is called on the output of a model
InitBlocks ==
  /\ pc = "call"
  /\ argument \in BraceTexts(MaxChars)
  /\ returned = None
  /\ Idle

ExtractFirstJsonBlock ==
  /\ pc = "call"
  /\ returned' = _extract_first_json_block(argument)
  /\ pc' = "returned"
  /\ UNCHANGED <<idle_vars, argument>>

NextBlocks == ExtractFirstJsonBlock

SpecBlocks == InitBlocks /\ [][NextBlocks]_vars

\* _parse_goal_code(goal_code) is called on the goal code of the blocks
InitGoalCode ==
  /\ pc = "call"
  /\ \E blocks \in GoalCodeBlocks : argument = [blocks |-> blocks, goal_code |-> blocks_text(blocks)]
  /\ returned = None
  /\ Idle

ParseGoalCode ==
  /\ pc = "call"
  /\ returned' = _parse_goal_code(argument.goal_code)
  /\ pc' = "returned"
  /\ UNCHANGED <<idle_vars, argument>>

NextGoalCode == ParseGoalCode

SpecGoalCode == InitGoalCode /\ [][NextGoalCode]_vars

\* lines 262-288 of _generate_tdl_document_with_llm are run on the answers
\* of the architecture stage and of the synthesis stage
InitPayloads ==
  /\ pc = "call"
  /\ \E l \in UsedSignatureLists(MaxSignatures), g \in SynthesisGoalCodes :
       argument = [goal_code |-> g, used_signatures |-> l, definitions |-> CommandDefinitionsAnswer]
  /\ returned = None
  /\ Idle

ParsePayloads ==
  /\ pc = "call"
  /\ returned' = parse_payloads(analysis, deployment.manufacturer, deployment.model, JDict(<<>>),
                                JStr(argument.goal_code), JList(argument.used_signatures), argument.definitions)
  /\ pc' = "returned"
  /\ UNCHANGED <<idle_vars, argument>>

NextPayloads == ParsePayloads

SpecPayloads == InitPayloads /\ [][NextPayloads]_vars

\* evaluate_robots on the documents of the reports and the robots of the
\* catalogue
InitSelect ==
  /\ pc = "loaded"
  /\ requirement = <<>>
  /\ deployment = Deployments[1]
  /\ analysis_llm = FALSE
  /\ synthesis_llm = FALSE
  /\ robot_specs = RobotCatalogue
  /\ criteria = DefaultCriteria
  /\ analysis = NoAnalysis
  /\ structured_logic_payload = JNull
  /\ architecture_payload = JNull
  /\ synthesis_payload = JNull
  /\ document \in ReportDocuments
  /\ calls = <<>>
  /\ analysis_path = ""
  /\ synthesis_path = ""
  /\ runs = <<>>
  /\ selection = NoSelection
  /\ validation_report = NoValidationReport
  /\ verification_report = NoVerificationReport
  /\ robot_database = <<>>
  /\ error = None
  /\ library = COMMAND_LIBRARY
  /\ requests = <<>>
  /\ argument = None
  /\ returned = None

NextSelect == EvaluateRobots

SpecSelect == InitSelect /\ [][NextSelect]_vars

\* ------------------------------------------------------------------------
\* Properties
\* ------------------------------------------------------------------------

\* the document returned came from _generate_tdl_document_heuristic
heuristic_path == synthesis_path \in {"heuristic", "fallback"}

\* C1: every document generate_tdl_document returns, whatever the model
\* backend did, has at least three goals, and its last goal has exactly one
\* command, the ReleaseCompliance() invocation.
C1_ThreeGoalsReleaseLast ==
  pc = "done" =>
    /\ Len(document.goals) >= 3
    /\ document.goals[Len(document.goals)].commands = << <<"R","e","l","e","a","s","e","C","o","m","p","l","i","a","n","c","e","(",")">> >>

\* the three answers parsed and the model's document was returned with
\* fewer than three goals
C1_ModelDocumentShort ==
  /\ pc = "done"
  /\ synthesis_path = "llm"
  /\ Len(calls) = 3
  /\ Len(document.goals) < 3

\* C2: when generate_json raises at any stage, generate_tdl_document returns
\* the goals and commands of the heuristic document of the analysis it was
\* given, and afterwards analysis.notes holds the note of the failure.
C2_RaiseFallsBack ==
  [][(calls' # calls /\ calls'[Len(calls')].outcome = "raise") =>
       /\ pc' = "done"
       /\ document'.goals
            = _generate_tdl_document_heuristic(analysis, deployment.manufacturer, deployment.model).goals
       /\ document'.commands
            = _generate_tdl_document_heuristic(analysis, deployment.manufacturer, deployment.model).commands
       /\ InList(fallback_note(ExcOf("raise")), analysis'.notes)]_vars

\* generate_json raised at the architecture stage and the heuristic document
\* was returned
C2_Witness ==
  /\ pc = "done"
  /\ Len(calls) = 2
  /\ calls[2] = [stage |-> "architecture", outcome |-> "raise"]
  /\ synthesis_path = "fallback"
  /\ Len(document.goals) = 3

FailureNote == <<"L","L","M"," ","a","n","a","l","y","s","i","s"," ","f","a","i","l","e","d",";"," ","h","e","u","r","i","s","t","i","c"," ","f","a","l","l","b","a","c","k"," ","a","p","p","l","i","e","d",".">>

\* analysis is the heuristic analysis h with the failure note appended last
failed_analysis_of(h) == analysis = [h EXCEPT !.notes = Append(h.notes, FailureNote)]

\* C3: analyze_requirement always returns; when the model's
\* analyze_requirement raised, the result is the heuristic analysis of the
\* text with one failure note appended last; otherwise no failure note is
\* added.
C3_AnalysisFallback ==
  pc = "analyzed" =>
    /\ analysis_path \in {"heuristic", "llm", "fallback"}
    /\ analysis_path = "fallback" =>
         \E objects \in detect_object_terms(requirement) :
           failed_analysis_of(analyze_requirement_heuristic(requirement, objects))
    /\ analysis_path # "fallback" => ~InList(FailureNote, analysis.notes)

\* the model's analyze_requirement raised on a text with a detected transfer
C3_Witness ==
  /\ pc = "analyzed"
  /\ analysis_path = "fallback"
  /\ Len(analysis.notes) = 2
  /\ analysis.notes[2] = FailureNote

StageOrder == <<"analysis", "architecture", "synthesis">>

\* C4: generate_json is called at most three times, in the order analysis,
\* architecture, synthesis, each stage only after every earlier one returned
\* parseable JSON and none twice; after the first failing stage the
\* heuristic document is returned without a further call.
C4_CallOrder ==
  /\ Len(calls) <= 3
  /\ \A i \in 1..Len(calls) :
       /\ calls[i].stage = StageOrder[i]
       /\ i < Len(calls) => calls[i].outcome = "json"
  /\ (calls # <<>> /\ calls[Len(calls)].outcome # "json") =>
       pc = "done" /\ synthesis_path = "fallback"

\* the second call failed and no third was made
C4_Witness ==
  /\ pc = "done"
  /\ Len(calls) = 2
  /\ calls[1].outcome = "json"
  /\ calls[2].outcome # "json"

\* payload is a JSON object without the key
lacks(payload, key) == payload.t = "dict" /\ ~HasKey(payload.v, key)

\* one of the three answers lacks a key required of it
missing_required_key ==
  \/ lacks(structured_logic_payload, <<"m","a","n","u","f","a","c","t","u","r","e","r">>)
  \/ lacks(structured_logic_payload, <<"l","o","g","i","c">>)
  \/ lacks(architecture_payload, <<"g","o","a","l","_","t","e","m","p","l","a","t","e","s">>)
  \/ lacks(architecture_payload, <<"s","p","a","w","n","a","b","l","e","_","c","o","m","m","a","n","d","s">>)
  \/ lacks(architecture_payload, <<"c","o","m","m","a","n","d","_","d","e","f","i","n","i","t","i","o","n","s">>)
  \/ lacks(synthesis_payload, <<"g","o","a","l","_","c","o","d","e">>)
  \/ lacks(synthesis_payload, <<"u","s","e","d","_","s","i","g","n","a","t","u","r","e","s">>)

\* C5: when an answer parses but lacks a required key, or no goal or no
\* command definition is recovered, the heuristic document is returned with
\* a fallback note.
C5_MissingKeyFallsBack ==
  (pc = "done" /\ Len(calls) = 3 /\ calls[3].outcome = "json"
     /\ (missing_required_key \/ document.goals = <<>> \/ document.commands = <<>>)) =>
    /\ synthesis_path = "fallback"
    /\ \E i \in 1..Len(analysis.notes) :
         startswith(analysis.notes[i], <<"L","L","M","-","d","r","i","v","e","n"," ","T","D","L"," ","s","y","n","t","h","e","s","i","s"," ","f","a","i","l","e","d",";"," ","h","e","u","r","i","s","t","i","c"," ","f","a","l","l","b","a","c","k"," ","u","s","e","d",".">>)

\* the stage-1 answer was the empty object and the model's document was
\* returned
C5_ModelDocumentKept ==
  /\ pc = "done"
  /\ synthesis_path = "llm"
  /\ structured_logic_payload = JDict(<<>>)

\* some definition of commands has the name
defined_in(commands, name) == \E i \in 1..Len(commands) : commands[i].name = name

\* every command call has a definition of its name in commands
all_defined(commands, command_calls) ==
  \A i \in 1..Len(command_calls) : defined_in(commands, call_name(command_calls[i]))

\* C6: in every document returned, commands is non-empty and every command
\* invoked in a goal has a definition of that name in commands.
C6_CommandsCoverGoals ==
  pc = "done" =>
    /\ document.commands # <<>>
    /\ all_defined(document.commands, AllCalls(document.goals))

\* the model's document invokes a command it does not define
C6_ModelDocumentUncovered ==
  /\ pc = "done"
  /\ synthesis_path = "llm"
  /\ ~all_defined(document.commands, AllCalls(document.goals))

\* the positions of command_calls that invoke ReleaseCompliance
release_calls(command_calls) ==
  {i \in 1..Len(command_calls) : call_name(command_calls[i]) = <<"R","e","l","e","a","s","e","C","o","m","p","l","i","a","n","c","e">>}

\* C7: a heuristic document has exactly the goals Initialize_Process,
\* Execute_Process, Finalize_Process in this order; ReleaseCompliance is
\* invoked once in the document, as the only command of the last goal, and
\* by no command of the first two goals.
C7_HeuristicGoals ==
  (pc = "done" /\ heuristic_path) =>
    /\ Len(document.goals) = 3
    /\ document.goals[1].name = <<"I","n","i","t","i","a","l","i","z","e","_","P","r","o","c","e","s","s">>
    /\ document.goals[2].name = <<"E","x","e","c","u","t","e","_","P","r","o","c","e","s","s">>
    /\ document.goals[3].name = <<"F","i","n","a","l","i","z","e","_","P","r","o","c","e","s","s">>
    /\ document.goals[3].commands = << <<"R","e","l","e","a","s","e","C","o","m","p","l","i","a","n","c","e","(",")">> >>
    /\ release_calls(document.goals[1].commands) = {}
    /\ release_calls(document.goals[2].commands) = {}
    /\ Cardinality(release_calls(AllCalls(document.goals))) = 1

\* a heuristic document whose Execute goal picks and places
C7_Witness ==
  /\ pc = "done"
  /\ heuristic_path
  /\ Len(document.goals[2].commands) >= 7
  /\ document.goals[3].commands = << <<"R","e","l","e","a","s","e","C","o","m","p","l","i","a","n","c","e","(",")">> >>

\* the names the command calls invoke
call_names(command_calls) == [i \in 1..Len(command_calls) |-> call_name(command_calls[i])]

\* the positions of names where a command of the library is invoked for the
\* first time
first_uses(names) ==
  {i \in 1..Len(names) :
     /\ HasKey(COMMAND_LIBRARY, names[i])
     /\ \A j \in 1..(i - 1) : names[j] # names[i]}

\* commands lists the library definitions of the first uses, in their order
lists_first_uses(commands, names, uses) ==
  /\ Len(commands) = Cardinality(uses)
  /\ \A p \in uses :
       commands[Cardinality({q \in uses : q <= p})] = dict_get(COMMAND_LIBRARY, names[p], <<>>)

\* the commands list the first uses among the command calls
commands_first_seen(commands, names) == lists_first_uses(commands, names, first_uses(names))

\* C8: the commands of a heuristic document are exactly the library
\* definitions of the commands its goals invoke, each once, in the order of
\* first invocation.
C8_CommandsFirstSeen ==
  (pc = "done" /\ heuristic_path) =>
    commands_first_seen(document.commands, call_names(AllCalls(document.goals)))

\* a heuristic document that invokes MoveLinear several times and lists it once
C8_Witness ==
  /\ pc = "done"
  /\ heuristic_path
  /\ Cardinality({i \in 1..Len(document.goals[2].commands) :
                    call_name(document.goals[2].commands[i]) = <<"M","o","v","e","L","i","n","e","a","r">>}) >= 2
  /\ Cardinality({i \in 1..Len(document.commands) : document.commands[i].name = <<"M","o","v","e","L","i","n","e","a","r">>}) = 1

\* C9: the runs of heuristic analysis and generation on one text,
\* manufacturer and model yield the same goals and the same commands.
C9_RunsAgree ==
  \A i, j \in 1..Len(runs) :
    /\ runs[i].goals = runs[j].goals
    /\ runs[i].commands = runs[j].commands

\* two runs on one text whose goal descriptions name the objects in
\* different orders
C9_RunsDiffer ==
  /\ Len(runs) >= 2
  /\ runs[1].header = runs[2].header
  /\ runs[1].goals[2].description # runs[2].goals[2].description

\* the candidate meets what the constraints ask of payload and reach
meets(candidate, constraints) ==
  /\ HasKey(constraints, <<"p","a","y","l","o","a","d","_","k","g">>) => candidate.payload >= dict_get(constraints, <<"p","a","y","l","o","a","d","_","k","g">>, 0)
  /\ HasKey(constraints, <<"r","e","a","c","h","_","m">>) => candidate.reach >= dict_get(constraints, <<"r","e","a","c","h","_","m">>, 0)

\* C10: a candidate of evaluate_robots passes iff its payload and its reach
\* are at least the constraints present; a candidate that does not pass has
\* score 0 and passes_constraints False.
C10_PassesIffMeets ==
  pc = "selected" =>
    /\ Len(selection.candidates) = Len(robot_specs)
    /\ \A i \in 1..Len(selection.candidates) :
         /\ selection.candidates[i].passes_constraints <=> meets(selection.candidates[i], analysis.constraints)
         /\ ~meets(selection.candidates[i], analysis.constraints) =>
              selection.candidates[i].score = 0 /\ selection.candidates[i].passes_constraints = FALSE

\* a robot exactly at both limits passes beside one below them that scores 0
C10_Witness ==
  /\ pc = "selected"
  /\ HasKey(analysis.constraints, <<"p","a","y","l","o","a","d","_","k","g">>)
  /\ HasKey(analysis.constraints, <<"r","e","a","c","h","_","m">>)
  /\ \E i, j \in 1..Len(selection.candidates) :
       /\ selection.candidates[i].payload = dict_get(analysis.constraints, <<"p","a","y","l","o","a","d","_","k","g">>, 0)
       /\ selection.candidates[i].reach = dict_get(analysis.constraints, <<"r","e","a","c","h","_","m">>, 0)
       /\ selection.candidates[i].passes_constraints
       /\ selection.candidates[i].score > 0
       /\ ~selection.candidates[j].passes_constraints
       /\ selection.candidates[j].score = 0

\* the candidate carries the fields of the robot spec
candidate_from(candidate, spec) ==
  /\ candidate.manufacturer = spec.manufacturer
  /\ candidate.model = spec.model
  /\ candidate.payload = spec.payload_kg
  /\ candidate.reach = spec.reach_m
  /\ candidate.repeatability = spec.repeatability_mm
  /\ candidate.energy_class = spec.energy_class

\* candidates are the robots of specs taken in the order p, scores never
\* rising, robots of one score in the order of specs
stably_sorted(candidates, specs, p) ==
  /\ \A i \in 1..Len(candidates) : candidate_from(candidates[i], specs[p[i]])
  /\ \A i, j \in 1..Len(candidates) :
       i < j => \/ candidates[i].score > candidates[j].score
                \/ candidates[i].score = candidates[j].score /\ p[i] < p[j]

\* C11: the candidates of evaluate_robots are in non-increasing order of
\* score, and candidates of equal score keep the relative order of their
\* specs in the input.
C11_SortedStable ==
  pc = "selected" =>
    /\ Len(selection.candidates) = Len(robot_specs)
    /\ \E p \in Orders(1..Len(robot_specs)) : stably_sorted(selection.candidates, robot_specs, p)

\* two different robots of one score are returned in their input order
C11_Witness ==
  /\ pc = "selected"
  /\ Len(selection.candidates) = 2
  /\ robot_specs[1] # robot_specs[2]
  /\ selection.candidates[1].score = selection.candidates[2].score
  /\ candidate_from(selection.candidates[1], robot_specs[1])
  /\ candidate_from(selection.candidates[2], robot_specs[2])

\* C12: with the default weights every candidate that passes the constraints
\* is ranked before every candidate that does not, and each candidate that
\* does not pass scores 0.
C12_CompliantFirst ==
  (pc = "selected" /\ criteria = DefaultCriteria) =>
    \A i, j \in 1..Len(selection.candidates) :
      /\ ~selection.candidates[j].passes_constraints => selection.candidates[j].score = 0
      /\ (selection.candidates[i].passes_constraints /\ ~selection.candidates[j].passes_constraints) => i < j

\* of two robots the one below the payload requirement comes first in the
\* database and last in the result
C12_Witness ==
  /\ pc = "selected"
  /\ criteria = DefaultCriteria
  /\ Len(robot_specs) = 2
  /\ HasKey(analysis.constraints, <<"p","a","y","l","o","a","d","_","k","g">>)
  /\ robot_specs[1].payload_kg < dict_get(analysis.constraints, <<"p","a","y","l","o","a","d","_","k","g">>, 0)
  /\ robot_specs[2].payload_kg > dict_get(analysis.constraints, <<"p","a","y","l","o","a","d","_","k","g">>, 0)
  /\ candidate_from(selection.candidates[1], robot_specs[2])
  /\ selection.candidates[1].passes_constraints
  /\ selection.candidates[1].score > 0
  /\ candidate_from(selection.candidates[2], robot_specs[1])
  /\ ~selection.candidates[2].passes_constraints
  /\ selection.candidates[2].score = 0

\* C13: verify_tdl reports schema_ok true iff the document has at least 3
\* goals and at least 1 command definition, whatever the goals are named and
\* hold and whatever syntax_ok and logical_ok are.
C13_SchemaOk ==
  pc = "verified" =>
    (verification_report.schema_ok <=> (Len(document.goals) >= 3 /\ Len(document.commands) >= 1))

\* schema_ok is reported for a document that fails the logical check, and
\* three goals without a command definition were refused
C13_Witness ==
  /\ pc = "verified"
  /\ verification_report.schema_ok
  /\ ~verification_report.logical_ok
  /\ \E d \in ReportDocuments :
       /\ Len(d.goals) = 3
       /\ d.commands = <<>>
       /\ d.goals = document.goals
       /\ ~verify_tdl(d).schema_ok

\* the name of the command a goal command invokes contains "Move"
invokes_movement(command) == contains(call_name(command), <<"M","o","v","e">>)

\* the goal is an Execute goal none of whose invocations is a movement
lacks_movement(goal) ==
  startswith(goal.name, <<"E","x","e","c","u","t","e">>) /\ \A i \in 1..Len(goal.commands) : ~invokes_movement(goal.commands[i])

\* the number of violations of the logical check in the goals
violations(goals) ==
  Cardinality({i \in 1..Len(goals) : goals[i].commands = <<>>})
  + Cardinality({i \in 1..Len(goals) : lacks_movement(goals[i])})

PositiveDetail == <<"T","D","L"," ","c","o","m","m","a","n","d","s"," ","p","a","s","s"," ","l","o","g","i","c","a","l"," ","c","o","n","s","i","s","t","e","n","c","y"," ","c","h","e","c","k","s",".">>

\* C14: verify_tdl reports logical_ok false iff some goal has no commands or
\* some goal whose name starts with "Execute" holds no invocation of a
\* command whose name contains "Move"; every violation has its detail, and
\* the details are the one positive message iff logical_ok is true.
C14_LogicalOk ==
  pc = "verified" =>
    /\ ~verification_report.logical_ok <=> violations(document.goals) > 0
    /\ violations(document.goals) > 0 => Len(verification_report.details) = violations(document.goals)
    /\ verification_report.logical_ok <=> verification_report.details = <<PositiveDetail>>
    /\ verification_report.details # <<>>

\* logical_ok is reported true for a document whose Execute goal invokes
\* SetTool only, "Move" occurring in the argument
C14_ArgumentTakenForMovement ==
  /\ pc = "verified"
  /\ verification_report.logical_ok
  /\ verification_report.details = <<PositiveDetail>>
  /\ \E i \in 1..Len(document.goals) :
       /\ document.goals[i].name = <<"E","x","e","c","u","t","e","_","W","e","l","d">>
       /\ document.goals[i].commands = <<<<"S","e","t","T","o","o","l","(","\"","M","o","v","e","T","o","o","l","\"",")">>>>
       /\ lacks_movement(document.goals[i])

\* the COMMAND block rendered for cmd gives cmd back
command_round_trip(cmd) ==
  command_def_match(_clean_command_definition_text(command_text(cmd))) = Some(cmd)

\* C15: from the text rendered for a heuristic document _parse_goal_code
\* extracts the goals of the document, names, descriptions and commands, in
\* their order and no other goal, and from each rendered COMMAND block the
\* command-definition parsing extracts the name, signature and body.
C15_RoundTrip ==
  (pc = "done" /\ synthesis_path = "heuristic") =>
    /\ _parse_goal_code(to_text(document)) = document.goals
    /\ \A k \in 1..Len(document.commands) : command_round_trip(document.commands[k])

\* the header of the rendered text quotes a requirement that opens a GOAL
\* block: the first goal is read back under the name X
C15_GoalSwallowed ==
  /\ pc = "done"
  /\ synthesis_path = "heuristic"
  /\ requirement = <<"G","O","A","L"," ","X","(">>
  /\ document.goals[1].name = <<"I","n","i","t","i","a","l","i","z","e","_","P","r","o","c","e","s","s">>
  /\ Len(_parse_goal_code(to_text(document))) = 3
  /\ _parse_goal_code(to_text(document))[1].name = <<"X">>
  /\ _parse_goal_code(to_text(document))[1].commands = document.goals[1].commands
  /\ \A k \in 1..Len(document.commands) : command_round_trip(document.commands[k])

RequiredKeys == {<<"m","a","n","u","f","a","c","t","u","r","e","r">>, <<"m","o","d","e","l">>, <<"p","a","y","l","o","a","d","_","k","g">>, <<"r","e","a","c","h","_","m">>, <<"r","e","p","e","a","t","a","b","i","l","i","t","y","_","m","m">>}

\* every record of the database holds the required keys
well_formed(data) == \A i \in 1..Len(data) : \A key \in RequiredKeys : HasKey(data[i].v, key)

\* run has returned a WorkflowResult with all its parts
complete_result ==
  /\ pc = "selected"
  /\ Len(document.goals) > 0
  /\ validation_report.summary # <<>>
  /\ verification_report.details # <<>>
  /\ Len(selection.candidates) = Len(robot_database)
  /\ selection.verification_notes # <<>>

\* C16: whatever the requirement text is and whatever the model did, run
\* raises only from load_robot_specs, and only when a record of the robot
\* database lacks manufacturer, model, payload_kg, reach_m or
\* repeatability_mm, and then it has no result; a database whose records
\* hold them is loaded, a record without energy_class read as "unknown",
\* and the result that run returns is complete.
C16_RunOutcome ==
  /\ pc = "raised" => (~well_formed(robot_database) /\ error # None /\ selection = NoSelection)
  /\ pc \in {"loaded", "selected"} =>
       /\ well_formed(robot_database)
       /\ error = None
       /\ Len(robot_specs) = Len(robot_database)
       /\ \A i \in 1..Len(robot_database) :
            ~HasKey(robot_database[i].v, <<"e","n","e","r","g","y","_","c","l","a","s","s">>) => robot_specs[i].energy_class = <<"u","n","k","n","o","w","n">>
  /\ pc = "selected" => complete_result
  /\ pc \in {"start", "analyzed", "done", "validated", "verified"} => error = None

\* the model's analysis failed, and a record without energy_class is among
\* the candidates of the result
C16_Witness ==
  /\ complete_result
  /\ analysis_path = "fallback"
  /\ \E i \in 1..Len(robot_database) :
       ~HasKey(robot_database[i].v, <<"e","n","e","r","g","y","_","c","l","a","s","s">>) /\ robot_specs[i].energy_class = <<"u","n","k","n","o","w","n">>

\* the name, its underscores shown as spaces, stands in s after position at
name_shown(s, at, name) ==
  /\ Len(s) >= at + Len(name)
  /\ \A j \in 1..Len(name) : s[at + j] = IF name[j] = "_" THEN " " ELSE name[j]

\* from goal k on, the names stand in s after position at, a comma and a
\* space between two of them, and the end of the template after the last
RECURSIVE steps_listed(_, _, _, _)
steps_listed(s, goals, k, at) ==
  IF k > Len(goals)
  THEN SubSeq(s, at + 1, Len(s)) = <<"."," ","P","l","e","a","s","e"," ","c","o","n","f","i","r","m"," ","t","h","a","t"," ","t","h","e"," ","r","o","b","o","t"," ","s","h","o","u","l","d"," ","a","c","t"," ","t","h","i","s"," ","w","a","y",".">>
  ELSE /\ name_shown(s, at, goals[k].name)
       /\ IF k < Len(goals)
          THEN /\ StartsWithAt(s, at + Len(goals[k].name) + 1, <<","," ">>)
               /\ steps_listed(s, goals, k + 1, at + Len(goals[k].name) + 2)
          ELSE steps_listed(s, goals, k + 1, at + Len(goals[k].name))

StepsPrefix == <<"T","h","e"," ","g","e","n","e","r","a","t","e","d"," ","T","D","L"," ","d","e","c","o","m","p","o","s","e","s"," ","t","h","e"," ","t","a","s","k"," ","i","n","t","o"," ","t","h","e"," ","f","o","l","l","o","w","i","n","g"," ","h","i","g","h","-","l","e","v","e","l"," ","s","t","e","p","s",":"," ">>

\* C17: the summary of the validation report lists the goal names of the
\* document in document order, underscores shown as spaces; the confirmation
\* prompt is always the same text; and the report has an issue iff no goal
\* name contains "Execute".
C17_ValidationReport ==
  pc \in {"validated", "verified"} =>
    /\ startswith(validation_report.summary, StepsPrefix)
    /\ steps_listed(validation_report.summary, document.goals, 1, Len(StepsPrefix))
    /\ validation_report.confirm_prompt = CONFIRM_PROMPT
    /\ Len(validation_report.issues) <= 1
    /\ validation_report.issues # <<>> <=>
         \A i \in 1..Len(document.goals) : ~contains(document.goals[i].name, <<"E","x","e","c","u","t","e">>)

\* a clean report on three goals, names with underscores among them
C17_Witness ==
  /\ pc = "validated"
  /\ Len(document.goals) = 3
  /\ \E i \in 1..3 : "_" \in Range(document.goals[i].name)
  /\ document.goals[1].name # document.goals[2].name
  /\ validation_report.issues = <<>>
  /\ "_" \notin Range(validation_report.summary)

\* a keyword of entry k of the table occurs in the lowercased requirement
keyword_occurs(k) ==
  \E n \in 1..Len(ACTION_KEYWORDS[k].synonyms) :
    contains(lower(requirement), ACTION_KEYWORDS[k].synonyms[n])

CanonicalOrder == <<<<"p","i","c","k">>, <<"p","l","a","c","e">>, <<"m","o","v","e">>, <<"w","a","i","t">>>>

\* C18: the detected actions hold a canonical action iff a keyword of it
\* occurs in the lowercased text, each at most once and in the order pick,
\* place, move, wait; they are exactly ["analyze"] iff no keyword occurs;
\* they are never empty.
C18_DetectActions ==
  pc = "analyzed" =>
    /\ analysis.detected_actions # <<>>
    /\ \A k \in 1..4 :
         /\ ACTION_KEYWORDS[k].canonical = CanonicalOrder[k]
         /\ CanonicalOrder[k] \in Range(analysis.detected_actions) <=> keyword_occurs(k)
    /\ \A i, j \in 1..Len(analysis.detected_actions) :
         i < j => \E a, b \in 1..4 : /\ a < b
                                     /\ analysis.detected_actions[i] = CanonicalOrder[a]
                                     /\ analysis.detected_actions[j] = CanonicalOrder[b]
    /\ analysis.detected_actions = <<<<"a","n","a","l","y","z","e">>>> <=> \A k \in 1..4 : ~keyword_occurs(k)
    /\ Range(analysis.detected_actions) \subseteq Range(CanonicalOrder) \cup {<<"a","n","a","l","y","z","e">>}

\* a keyword of place stands before a keyword of pick in the text, and pick
\* is listed first
C18_Witness ==
  /\ pc = "analyzed"
  /\ requirement = <<"P","u","t"," ","g","r","a","b">>
  /\ analysis.detected_actions = <<<<"p","i","c","k">>, <<"p","l","a","c","e">>>>

\* the analysis with its notes left out
without_notes(a) == [a EXCEPT !.notes = <<>>]

\* C19: the steps of build_validation_report, verify_tdl and evaluate_robots
\* leave the document, the robot specs and the analysis as they are; once
\* the analysis exists, a step changes nothing of it but its notes, and the
\* notes it had stay, in their order, at the head of the notes it has.
C19_Frame ==
  [][ /\ pc \in {"done", "validated", "loaded"} =>
           (document' = document /\ robot_specs' = robot_specs /\ analysis' = analysis)
      /\ pc # "start" =>
           /\ without_notes(analysis') = without_notes(analysis)
           /\ Len(analysis'.notes) >= Len(analysis.notes)
           /\ SubSeq(analysis'.notes, 1, Len(analysis.notes)) = analysis.notes
    ]_vars

\* generation fell back and appended its note to the notes of the analysis,
\* the reports were built, and the evaluation ranked the robots in another
\* order than the robot specs have
C19_Witness ==
  /\ pc = "selected"
  /\ synthesis_path = "fallback"
  /\ Len(analysis.notes) >= 2
  /\ startswith(analysis.notes[Len(analysis.notes)], <<"L","L","M","-","d","r","i","v","e","n"," ","T","D","L"," ","s","y","n","t","h","e","s","i","s"," ","f","a","i","l","e","d">>)
  /\ validation_report # NoValidationReport
  /\ verification_report # NoVerificationReport
  /\ Len(robot_specs) = Len(RobotCatalogue)
  /\ Len(selection.candidates) = Len(robot_specs)
  /\ selection.candidates[1].model # robot_specs[1].model

\* the command objects the document of request r holds
command_objects(r) == Range(requests[r].commands)

\* C20: the documents of separate requests share no entity: the GoalNode
\* objects of a request are its own, and no command object of its document
\* is held by the document of another request or by a table of the process.
C20_NoSharedEntity ==
  /\ \A r, q \in 1..Len(requests) : r # q => command_objects(r) \cap command_objects(q) = {}
  /\ \A r \in 1..Len(requests) :
       \A i \in 1..Len(requests[r].commands) : requests[r].commands[i].table # "COMMAND_LIBRARY"

\* two requests hold one command object, the object of COMMAND_LIBRARY, and
\* the body assigned through one document is read through both and through
\* the table
C20_SharedCommand ==
  /\ Len(requests) = 2
  /\ requests[1].goals # requests[2].goals
  /\ \E i \in 1..Len(requests[1].commands) :
       \E j \in 1..Len(requests[2].commands) :
         /\ requests[1].commands[i] = requests[2].commands[j]
         /\ requests[1].commands[i] = LibraryRef(<<"M","o","v","e","L","i","n","e","a","r">>)
         /\ document_view(library, requests[1]).commands[i].body = NewBody
         /\ document_view(library, requests[2]).commands[j].body = NewBody
         /\ dict_get(library, <<"M","o","v","e","L","i","n","e","a","r">>, <<>>).body = NewBody
         /\ dict_get(COMMAND_LIBRARY, <<"M","o","v","e","L","i","n","e","a","r">>, <<>>).body # NewBody

\* the parsing instructions of the installation
parsing_instructions == get_parsing_instructions(deployment.store, deployment.manufacturer)

\* the syntax reference of the installation
tdl_syntax == get_tdl_syntax_reference(deployment.store, deployment.manufacturer)

\* C21: with empty parsing instructions generate_tdl_document makes no
\* generate_json call and returns the heuristic document of the analysis,
\* the fallback note appended to its notes; with parsing instructions the
\* first call is made, whether the syntax reference is empty or not.
C21_ParsingInstructions ==
  /\ (pc \notin {"start", "analyzed"} /\ parsing_instructions = <<>>) =>
       /\ pc = "done"
       /\ calls = <<>>
       /\ synthesis_path = "fallback"
       /\ analysis.notes # <<>>
       /\ analysis.notes[Len(analysis.notes)]
            = <<"L","L","M","-","d","r","i","v","e","n"," ","T","D","L"," ","s","y","n","t","h","e","s","i","s"," ","f","a","i","l","e","d",";"," ","h","e","u","r","i","s","t","i","c"," ","f","a","l","l","b","a","c","k"," ","u","s","e","d","."," ","(","N","o"," ","p","a","r","s","i","n","g"," ","i","n","s","t","r","u","c","t","i","o","n","s"," ","a","v","a","i","l","a","b","l","e"," ","f","o","r"," ","p","r","o","m","p","t","i","n","g",")">>
       /\ document.goals = _build_goals_heuristic(analysis)
       /\ document.commands = _gather_commands_for_goals(document.goals)
  /\ (pc \notin {"start", "analyzed"} /\ parsing_instructions # <<>>) =>
       /\ pc = "analysis" => calls = <<>>
       /\ pc # "analysis" => (calls # <<>> /\ calls[1].stage = "analysis")

\* the store holds documents, of white space only: the path was left
\* before any call
C21_Witness ==
  /\ pc = "done"
  /\ deployment.store # <<>>
  /\ parsing_instructions = <<>>
  /\ calls = <<>>
  /\ synthesis_path = "fallback"

\* C22: the header of the document returned holds, as its source text, the
\* requirement text that was passed to analyze_requirement, whichever way
\* the analysis was produced.
C22_VerbatimSource ==
  pc = "done" => document.header.source_requirement = requirement

\* the analysis is the model's, and the header holds the source text of the
\* model's answer (or none, the answer having no such key), not the
\* requirement
C22_ModelSourceText ==
  /\ pc = "done"
  /\ analysis_path = "llm"
  /\ requirement # <<>>
  /\ document.header.source_requirement = analysis.source_requirement
  /\ document.header.source_requirement \in {<<>>, <<"P","a","r","a","p","h","r","a","s","e","d"," ","t","a","s","k">>}

\* the coordinate a location name stands for: the entry of the table whose
\* name is the lowercased name, the default when there is none
resolved(location, default) ==
  IF location # None /\ \E i \in 1..Len(DEFAULT_LOCATION_MAP) : DEFAULT_LOCATION_MAP[i].key = lower(location[1])
  THEN DEFAULT_LOCATION_MAP[CHOOSE i \in 1..Len(DEFAULT_LOCATION_MAP) :
                              DEFAULT_LOCATION_MAP[i].key = lower(location[1])].value
  ELSE default

\* the command is a MoveLinear to the coordinate, dz above it
moves_to(cmd, coords, dz) ==
  startswith(cmd, <<"M","o","v","e","L","i","n","e","a","r","(","P","o","s","X","(">> \o str_int(coords[1]) \o <<",">> \o str_int(coords[2]) \o <<",">>
                    \o str_int(coords[3] + dz) \o <<",">>)

\* 1 when the action is among the actions, else 0
counted(action, actions) == IF action \in Range(actions) THEN 1 ELSE 0

\* the commands from position k + 1 on are those of the actions, for the
\* source coordinate s and the target coordinate t
execute_blocks(cmds, actions, s, t) ==
  /\ Len(cmds) = 4 * counted(<<"p","i","c","k">>, actions) + counted(<<"m","o","v","e">>, actions) + 3 * counted(<<"p","l","a","c","e">>, actions)
  /\ <<"p","i","c","k">> \in Range(actions) =>
       /\ moves_to(cmds[1], s, 100)
       /\ moves_to(cmds[2], s, 10)
       /\ call_name(cmds[3]) = <<"G","r","a","s","p","O","b","j","e","c","t">>
       /\ moves_to(cmds[4], s, 100)
  /\ <<"m","o","v","e">> \in Range(actions) => moves_to(cmds[4 * counted(<<"p","i","c","k">>, actions) + 1], t, 100)
  /\ <<"p","l","a","c","e">> \in Range(actions) =>
       /\ moves_to(cmds[Len(cmds) - 2], t, 10)
       /\ call_name(cmds[Len(cmds) - 1]) = <<"R","e","l","e","a","s","e","O","b","j","e","c","t">>
       /\ moves_to(cmds[Len(cmds)], t, 100)

\* C23: in the Execute goal of a heuristic document "pick" stands for four
\* commands (MoveLinear 100 above the source, MoveLinear 10 above it,
\* GraspObject, MoveLinear 100 above it), "move" for one MoveLinear 100 above
\* the target and "place" for three (MoveLinear 10 above the target,
\* ReleaseObject, MoveLinear 100 above it); a location name is looked up in
\* the table of locations in lower case, and a missing or unknown name
\* stands for (0,0,50) as source and (300,200,50) as target.
C23_ExecuteCommands ==
  pc \in {"done", "validated", "verified"} =>
    /\ Len(document.goals) = 3
    /\ execute_blocks(document.goals[2].commands, analysis.detected_actions,
                      resolved(analysis.source_location, <<0, 0, 50>>),
                      resolved(analysis.target_location, <<300, 200, 50>>))

\* pick, move and place together, listed in another order; the source is in
\* the table under a name of another case, the target is not in it
C23_Witness ==
  /\ pc = "done"
  /\ analysis.detected_actions = <<<<"p","l","a","c","e">>, <<"m","o","v","e">>, <<"p","i","c","k">>>>
  /\ analysis.source_location = Some(<<"P","i","c","k","u","p">>)
  /\ analysis.target_location = Some(<<"d","o","c","k">>)
  /\ Len(document.goals[2].commands) = 8

\* the number of characters c of s at the positions a..b
count_of(s, c, a, b) == Cardinality({i \in a..b : s[i] = c})

\* the positions from start on of a "}" that closes every brace opened since start
closing_positions(s, start) ==
  {e \in start..Len(s) : s[e] = "}" /\ count_of(s, "{", start, e) = count_of(s, "}", start, e)}

\* the block is s from start to the first closing position
block_from(s, start, block) ==
  /\ closing_positions(s, start) # {}
  /\ block = SubSeq(s, start, Min(closing_positions(s, start)))
  /\ block[1] = "{"
  /\ block[Len(block)] = "}"
  /\ count_of(block, "{", 1, Len(block)) = count_of(block, "}", 1, Len(block))
  /\ \A k \in 1..(Len(block) - 1) : count_of(block, "{", 1, k) > count_of(block, "}", 1, k)

\* C24: _extract_first_json_block returns the text from its first "{" to
\* the first later "}" at which as many braces are closed as were opened,
\* a block of balanced braces, without what stands before and after it; it
\* raises when the text has no "{" or when the braces opened from the first
\* "{" on are never all closed.
C24_FirstBlock ==
  pc = "returned" =>
    IF "{" \notin Range(argument)
    THEN returned.raised /\ returned.exc = <<"N","o"," ","J","S","O","N"," ","o","b","j","e","c","t"," ","s","t","a","r","t"," ","f","o","u","n","d"," ","i","n"," ","m","o","d","e","l"," ","o","u","t","p","u","t">>
    ELSE IF closing_positions(argument, Min({i \in 1..Len(argument) : argument[i] = "{"})) = {}
    THEN returned.raised /\ returned.exc = <<"U","n","b","a","l","a","n","c","e","d"," ","J","S","O","N"," ","b","r","a","c","e","s"," ","i","n"," ","m","o","d","e","l"," ","o","u","t","p","u","t">>
    ELSE /\ ~returned.raised
         /\ block_from(argument, Min({i \in 1..Len(argument) : argument[i] = "{"}), returned.document)

\* a nested block is cut out of prose that holds a "}" before it and a
\* brace after it
C24_Witness ==
  /\ pc = "returned"
  /\ argument = <<"}", "{", "{", "}", "}">>
  /\ returned = Returned(<<"{", "{", "}", "}">>)

\* the positions of the lines of a kind, in body order
lines_of_kind(lines, kind) == {i \in 1..Len(lines) : lines[i].kind = kind}

RECURSIVE texts_of_kind(_, _)
\* the texts of the lines of a kind, in body order
texts_of_kind(lines, kind) ==
  IF lines = <<>> THEN <<>>
  ELSE (IF lines[1].kind = kind THEN <<lines[1].text>> ELSE <<>>) \o texts_of_kind(Tail(lines), kind)

\* the goal is the goal of the block: its name, its SPAWN lines in body
\* order as commands, and for description the default or, when the body has
\* a comment line, possibly the text of the first of them
goal_of_block(goal, block) ==
  /\ goal.name = block.name
  /\ goal.commands = texts_of_kind(block.lines, "spawn")
  /\ IF lines_of_kind(block.lines, "comment") = {}
     THEN goal.description = <<"G","e","n","e","r","a","t","e","d"," ","g","o","a","l"," ","b","l","o","c","k">>
     ELSE goal.description \in {<<"G","e","n","e","r","a","t","e","d"," ","g","o","a","l"," ","b","l","o","c","k">>, block.lines[Min(lines_of_kind(block.lines, "comment"))].text}

\* C25: _parse_goal_code returns one GoalNode for every GOAL block of the
\* text, in text order; the description of a goal comes from the first
\* comment line of its body and from no later one, and is the default when
\* the body has none; every SPAWN line is one command, in body order.
C25_GoalsOfBlocks ==
  pc = "returned" =>
    /\ Len(returned) = Len(argument.blocks)
    /\ \A k \in 1..Len(argument.blocks) : goal_of_block(returned[k], argument.blocks[k])

\* the first comment line of the body holds no text, and the goal is
\* described by the comment line after it
C25_LaterCommentUsed ==
  /\ pc = "returned"
  /\ Len(argument.blocks[1].lines) = 3
  /\ argument.blocks[1].lines[1].written = <<"/","/">>
  /\ argument.blocks[1].lines[2].kind = "spawn"
  /\ argument.blocks[1].lines[3].text = <<"L","a","t","e","r">>
  /\ returned[1].description = <<"L","a","t","e","r">>

\* the definition the architecture answer wrote for the signature, or None
written_for(signature) ==
  IF HasKey(WrittenDefinitions, signature)
  THEN Some(dict_get(WrittenDefinitions, signature, None))
  ELSE None

\* the places of used_signatures where a signature with a written definition
\* stands for the first time
first_resolved(used_signatures) ==
  { i \in 1..Len(used_signatures) :
      /\ written_for(used_signatures[i]) # None
      /\ \A j \in 1..(i - 1) : used_signatures[j] # used_signatures[i] }

\* results holds the definitions of the places, in the order of the places
definitions_at(results, used_signatures, places) ==
  /\ Len(results) = Cardinality(places)
  /\ \A i \in places :
       Some(results[Cardinality({j \in places : j <= i})]) = written_for(used_signatures[i])

\* C26: _parse_command_definitions yields at most one definition for every
\* distinct used signature, in the order of used_signatures; a signature
\* the command_definitions map does not hold, or whose text is no
\* name(signature){body}, is dropped without an exception, and the model
\* path is rejected only when no goal or no definition was recovered.
C26_CommandDefinitions ==
  pc = "returned" =>
    /\ returned.raised <=> \/ first_resolved(argument.used_signatures) = {}
                           \/ argument.goal_code \notin {GoalCodeOne}
    /\ returned.raised => returned.exc = <<"L","L","M"," ","s","y","n","t","h","e","s","i","s"," ","r","e","t","u","r","n","e","d"," ","i","n","c","o","m","p","l","e","t","e"," ","T","D","L"," ","d","a","t","a">>
    /\ ~returned.raised =>
         definitions_at(returned.document.commands, argument.used_signatures,
                        first_resolved(argument.used_signatures))

\* an omitted signature, a defined one, and the defined one again: one
\* definition is in the document
C26_Witness ==
  /\ pc = "returned"
  /\ argument.used_signatures = <<SigUnknown, SigRelease, SigRelease>>
  /\ ~returned.raised
  /\ Len(returned.document.commands) = 1
  /\ returned.document.commands[1].name = <<"R","e","l","e","a","s","e","C","o","m","p","l","i","a","n","c","e">>

\* the commands of GoalChoices whose text holds Move
MoveCommands == { <<"M","o","v","e","L","i","n","e","a","r","(","P","1",")">>, <<"S","e","t","T","o","o","l","(","\"","M","o","v","e","T","o","o","l","\"",")">> }

\* the goal at index 1 (the second goal) has a command that holds Move
second_goal_moves(goals) ==
  /\ Len(goals) >= 2
  /\ \E i \in 1..Len(goals[2].commands) : goals[2].commands[i] \in MoveCommands

\* C27: evaluate_robots adds the movement note exactly when the goal at
\* index 1 of the document has no command whose text holds "Move", as in a
\* document of fewer than two goals; the name of the goal and the other
\* goals do not matter, and the note is added once at most.
C27_MovementNote ==
  pc = "selected" =>
    selection.validation_notes =
      IF second_goal_moves(document.goals) THEN <<>>
      ELSE <<<<"E","x","e","c","u","t","e"," ","g","o","a","l"," ","d","o","e","s"," ","n","o","t"," ","c","o","n","t","a","i","n"," ","a","n"," ","e","x","p","l","i","c","i","t"," ","m","o","v","e","m","e","n","t"," ","c","o","m","m","a","n","d",".">>>>

\* the first and the third goal move, the second is named Execute and holds
\* no command: the note is added
C27_Witness ==
  /\ pc = "selected"
  /\ Len(document.goals) = 3
  /\ document.goals[1].name = <<"E","x","e","c","u","t","e","_","P","r","o","c","e","s","s">>
  /\ document.goals[2].name = <<"E","x","e","c","u","t","e">>
  /\ document.goals[3].name = <<"E","x","e","c","u","t","e","_","W","e","l","d">>
  /\ Len(selection.validation_notes) = 1

\* the second goal is not named Execute and moves: no note is added
C27_OtherName ==
  /\ pc = "selected"
  /\ Len(document.goals) = 2
  /\ document.goals[1].name = <<"E","x","e","c","u","t","e">>
  /\ document.goals[2].name = <<"E","x","e","c","u","t","e","_","W","e","l","d">>
  /\ selection.validation_notes = <<>>

\* generate_tdl_document has returned to run
generated == pc \in {"done", "validated", "verified", "loaded", "selected", "raised"}

\* the note generate_tdl_document appends when the model path fails
synthesis_fallback_notes(notes) ==
  { i \in 1..Len(notes) : startswith(notes[i], <<"L","L","M","-","d","r","i","v","e","n"," ","T","D","L"," ","s","y","n","t","h","e","s","i","s"," ","f","a","i","l","e","d">>) }

\* C28: NL2TDLWorkflow.run never calls generate_json on the configured
\* model: the synthesizer is invoked without it, the document of the run is
\* the heuristic document of the analysis, and no synthesis fallback note is
\* ever added to the analysis.
C28_RunWithoutSynthesisModel ==
  /\ calls = <<>>
  /\ ~synthesis_llm
  /\ synthesis_fallback_notes(analysis.notes) = {}
  /\ generated =>
       /\ synthesis_path = "heuristic"
       /\ document = _generate_tdl_document_heuristic(analysis, deployment.manufacturer, deployment.model)

\* a run with a model has come to its end, the analysis being the model's
C28_Witness ==
  /\ pc = "selected"
  /\ analysis_llm
  /\ analysis_path = "llm"
  /\ synthesis_path = "heuristic"
  /\ document.goals # <<>>

\* one of pick, move and place is among the actions
handles(actions) == \E i \in 1..Len(actions) : actions[i] \in {<<"p","i","c","k">>, <<"m","o","v","e">>, <<"p","l","a","c","e">>}

\* C29: for a document built heuristically, verify_tdl reports syntax_ok
\* and schema_ok, and logical_ok exactly when detected_actions holds pick,
\* move or place; for any other list of actions the Execute goal is empty
\* and logical_ok is false.
C29_HeuristicVerification ==
  pc = "verified" =>
    /\ verification_report.syntax_ok
    /\ verification_report.schema_ok
    /\ verification_report.logical_ok <=> handles(analysis.detected_actions)
    /\ ~handles(analysis.detected_actions) => document.goals[2].commands = <<>>

\* the actions are wait and Move: the Execute goal is empty and the
\* document fails the logical check
C29_Witness ==
  /\ pc = "verified"
  /\ analysis.detected_actions = <<<<"w","a","i","t">>, <<"M","o","v","e">>>>
  /\ document.goals[2].name = <<"E","x","e","c","u","t","e","_","P","r","o","c","e","s","s">>
  /\ document.goals[2].commands = <<>>
  /\ verification_report.syntax_ok
  /\ ~verification_report.logical_ok

\* pick, move and place in this order, each listed once if it is among the
\* actions
membership_list(actions) ==
  (IF <<"p","i","c","k">> \in Range(actions) THEN <<<<"p","i","c","k">>>> ELSE <<>>)
  \o (IF <<"m","o","v","e">> \in Range(actions) THEN <<<<"m","o","v","e">>>> ELSE <<>>)
  \o (IF <<"p","l","a","c","e">> \in Range(actions) THEN <<<<"p","l","a","c","e">>>> ELSE <<>>)

\* the block a command of the Execute goal belongs to, by its comment: 1
\* for pick (the source), 2 for move (to above the target), 3 for place
block_rank(cmd) ==
  IF contains(cmd, <<"s","o","u","r","c","e","_">>) \/ contains(cmd, <<"C","l","o","s","e"," ","g","r","i","p","p","e","r">>) THEN 1
  ELSE IF contains(cmd, <<"/","/"," ","M","o","v","e"," ","t","o"," ","t","a","r","g","e","t","_">>) THEN 2
  ELSE 3

block_action(cmd) == <<<<"p","i","c","k">>, <<"m","o","v","e">>, <<"p","l","a","c","e">>>>[block_rank(cmd)]

\* C30: the Execute goal of a heuristic document depends only on which of
\* pick, move and place are among detected_actions, not on their order or
\* number: the commands are those of the list that names the members once
\* in the order pick, move, place; the pick block precedes the move block
\* and the move block the place block; no other action adds a command.
C30_MembershipOnly ==
  pc = "done" =>
    /\ document.goals[2].commands =
         _build_goals_heuristic([analysis EXCEPT !.detected_actions = membership_list(@)])[2].commands
    /\ \A i, j \in 1..Len(document.goals[2].commands) :
         i < j => block_rank(document.goals[2].commands[i]) <= block_rank(document.goals[2].commands[j])
    /\ {block_action(document.goals[2].commands[i]) : i \in 1..Len(document.goals[2].commands)}
         = Range(analysis.detected_actions) \cap {<<"p","i","c","k">>, <<"m","o","v","e">>, <<"p","l","a","c","e">>}

\* place is listed before pick, with an action between them that is none
\* of the three: the pick block comes first, the place block last
C30_Witness ==
  /\ pc = "done"
  /\ analysis.detected_actions = <<<<"p","l","a","c","e">>, <<"w","a","i","t">>, <<"p","i","c","k">>>>
  /\ Len(document.goals[2].commands) = 7
  /\ block_rank(document.goals[2].commands[1]) = 1
  /\ block_rank(document.goals[2].commands[7]) = 3

====
